---------------------------- MODULE Spec2Model ----------------------------
(***************************************************************************)
(* Backtest / strategy core of trandig-bot-vps.                            *)
(*                                                                         *)
(*   backtest_csv.py        BacktestEngine, GridTradingStrategy,           *)
(*                          PerformanceAnalyzer, run_backtest              *)
(*   advanced_strategies.py ImprovedGridStrategy, MomentumStrategy,        *)
(*                          MeanReversionStrategy, run_strategy_comparison *)
(*                                                                         *)
(* Numbers.  The program computes in binary floating point.  In the        *)
(* run_backtest replay the parameters are chosen so that every quotient    *)
(* the code forms is an integer (the amounts total/(grid_num*level)), so   *)
(* integer arithmetic reproduces the float computation exactly.  In the    *)
(* run_strategy_comparison replay capital and amounts are counted in       *)
(* units of 1/SCALE and a quotient is rounded down to that unit.           *)
(* A timestamp is the 1-based index of the row in the price history.       *)
(***************************************************************************)
EXTENDS Integers, Sequences, FiniteSets, TLC

VARIABLES
    runner,        \* the entry point that drives the ledger
    strategy,      \* the strategy object of the run
    df,            \* the price history: the sequence of closing prices
    pc,            \* position in the entry point's code
    i,             \* rows of df consumed by the replay loop
    signals,       \* the list get_signals returned for the current row
    k,             \* index in signals of the next signal to apply
    capital,       \* ledger: self.capital
    position,      \* ledger: self.position
    trades,        \* ledger: self.trades
    equity_curve,  \* the equity curve of the run
    grid_prices,   \* strategy.grid_prices
    grid_status,   \* GridTradingStrategy.grid_status, keyed by level index
    last_price,    \* strategy.last_price (None before the first row)
    initialized,   \* GridTradingStrategy.initialized
    entry_price,   \* ImprovedGridStrategy.entry_price (None when unset)
    in_position,   \* MomentumStrategy / MeanReversionStrategy.in_position
    metrics,       \* what calculate_metrics returned
    run_no,        \* which call of the entry point is running (1 or 2)
    previous,      \* trades and equity curve the previous call returned
    current_test,  \* optimize_parameters: combinations started so far
    results,       \* optimize_parameters: the rows appended so far
    results_df,    \* optimize_parameters: the table returned
    signal_log,    \* the lists get_signals returned in this run, one per row
    safety,        \* MomentumBotSafe: the fields of its SafetyMonitor
    exchange,      \* MomentumBotSafe: the account at the exchange and the calendar date
    bot,           \* the live bot: the locals of run, and the last order method's return
    slack          \* MomentumBotSafe: the notifications sent in this loop iteration

ledgerVars   == <<capital, position, trades, equity_curve>>
strategyVars == <<grid_prices, grid_status, last_price, initialized, entry_price, in_position>>
optimizerVars == <<current_test, results, results_df>>
botVars      == <<safety, exchange, bot, slack>>
callVars     == <<run_no, previous, current_test, results, results_df, signal_log, safety,
                  exchange, bot, slack>>
vars         == <<runner, strategy, df, pc, i, signals, k, capital, position,
                  trades, equity_curve, grid_prices, grid_status, last_price, initialized,
                  entry_price, in_position, metrics, run_no, previous,
                  current_test, results, results_df, signal_log, safety, exchange, bot, slack>>

\* Python's None where a price is expected: a value no price takes
None == 0 - 1

\* metrics before calculate_metrics ran
NoMetrics == [computed |-> FALSE]

\* previous before any call returned
NoResult == [returned |-> FALSE]

\* safety, exchange and bot where no MomentumBotSafe was constructed
NoBot == [constructed |-> FALSE]

----------------------------------------------------------------------------
(* Bounds of the model                                                     *)

\* longest price history replayed by run_backtest
MaxLen == 4

\* longest price history replayed by run_strategy_comparison
CompareMaxLen == 5

\* the look-back windows of the strategies of run_strategy_comparison, whose
\* constructors default to 30, 20 and 20 samples
volatility_window == 3
lookback == 3
ma_period == 3

\* execute_trade called directly: the capital the ledger starts with, the
\* largest amount of a signal, and the number of calls
LedgerCapital == 3
MaxSignalAmount == 2
MaxCalls == 3

\* the longest trade log and the longest equity curve handed to
\* PerformanceAnalyzer.calculate_metrics directly
MaxTrades == 4
MaxPoints == 3

\* the longest price history handed to optimize_parameters
MaxRows == 2

\* MomentumBotSafe: the calendar dates the bot runs over, the orders the
\* exchange fills, the API failures in a row, the samples the deque of
\* SafetyMonitor holds (12 in the source: one hour of 5-minute samples) and
\* the status reports between two heartbeats (6 in the source)
MaxDays == 2
BotMaxOrders == 1
MaxApiErrors == 3
price_history_maxlen == 2
heartbeat_interval == 2

\* MomentumBot and MomentumBotJPY: the orders the exchange fills in a run
LiveMaxOrders == 2

----------------------------------------------------------------------------
(* Sequences                                                               *)

Last(s) == s[Len(s)]

Reverse(s) == [n \in 1..Len(s) |-> s[Len(s) + 1 - n]]

RECURSIVE SeqsUpTo(_, _)
\* all sequences over S of length 0..n
SeqsUpTo(S, n) ==
    IF n = 0 THEN {<<>>}
    ELSE LET shorter == SeqsUpTo(S, n - 1)
         IN  shorter \cup {Append(s, x) : s \in {t \in shorter : Len(t) = n - 1}, x \in S}

----------------------------------------------------------------------------
(* Fixed-point arithmetic                                                  *)

\* capital, amounts and ratios are counted in units of 1/SCALE
SCALE == 10^4

Min(a, b) == IF a <= b THEN a ELSE b
Max(a, b) == IF a >= b THEN a ELSE b

\* floor(a * b / c) for a >= 0, b >= 0, c > 0, formed without a * b
MulDiv(a, b, c) == ((a \div c) * b) + (((a % c) * b) \div c)

RECURSIVE SqrtIter(_, _)
SqrtIter(n, x) ==
    LET y == (x + (n \div x)) \div 2
    IN  IF y >= x THEN x ELSE SqrtIter(n, y)

\* floor of the square root
ISqrt(n) == IF n <= 0 THEN 0 ELSE SqrtIter(n, n)

RECURSIVE SumSeq(_)
SumSeq(s) == IF s = <<>> THEN 0 ELSE s[1] + SumSeq(Tail(s))

\* np.sqrt(365), in units of 1/SCALE
SQRT_365 == 191050

\* a / b rounded to the nearest integer, for a >= 0 and b > 0
RoundDiv(a, b) == ((2 * a) + b) \div (2 * b)

\* a * b for 0 <= a, b < 10^8 as three digits to the base 10^4, most
\* significant first, formed without a * b
Product(a, b) ==
    LET a1  == a \div SCALE
        a0  == a % SCALE
        b1  == b \div SCALE
        b0  == b % SCALE
        lo  == a0 * b0
        mid == (a1 * b0) + (a0 * b1) + (lo \div SCALE)
    IN  <<(a1 * b1) + (mid \div SCALE), mid % SCALE, lo % SCALE>>

----------------------------------------------------------------------------
(* BacktestEngine (backtest_csv.py)                                        *)

\* initial_capital of the run_backtest replay: 4 * lcm(90, 95, 100, 105, 110),
\* so that every per-level amount (total/2)/(grid_num/2)/level is an integer
initial_capital == 5266800

TradeRecord(price, amount, side, timestamp) ==
    IF side = "buy"
    THEN [timestamp |-> timestamp, side |-> "buy", price |-> price,
          amount |-> amount, cost |-> price * amount]
    ELSE [timestamp |-> timestamp, side |-> "sell", price |-> price,
          amount |-> amount, revenue |-> price * amount]

\* execute_trade without its feasibility checks
execute_trade_unchecked(price, amount, side, timestamp) ==
    IF side = "buy"
    THEN [capital  |-> capital - (price * amount),
          position |-> position + amount,
          trades   |-> Append(trades, TradeRecord(price, amount, side, timestamp))]
    ELSE [capital  |-> capital + (price * amount),
          position |-> position - amount,
          trades   |-> Append(trades, TradeRecord(price, amount, side, timestamp))]

\* execute_trade that fills an infeasible signal as far as the ledger allows
execute_trade_partial_fill(price, amount, side, timestamp) ==
    LET filled == IF side = "buy"
                  THEN IF price * amount <= capital THEN amount ELSE capital \div price
                  ELSE IF amount <= position THEN amount ELSE position
    IN  IF filled = 0
        THEN [capital |-> capital, position |-> position, trades |-> trades]
        ELSE execute_trade_unchecked(price, filled, side, timestamp)

\* execute_trade with strict comparisons: a signal that uses the ledger up
\* exactly is dropped
execute_trade_strict(price, amount, side, timestamp) ==
    IF (side = "buy" /\ price * amount < capital) \/ (side = "sell" /\ amount < position)
    THEN execute_trade_unchecked(price, amount, side, timestamp)
    ELSE [capital |-> capital, position |-> position, trades |-> trades]

\* BacktestEngine.execute_trade: the ledger after the call, as
\* [capital, position, trades]
BacktestEngine_execute_trade(price, amount, side, timestamp) ==
    IF side = "buy" THEN
        LET cost == price * amount IN
        IF cost <= capital
        THEN [capital  |-> capital - cost,
              position |-> position + amount,
              trades   |-> Append(trades, [timestamp |-> timestamp, side |-> "buy",
                                           price |-> price, amount |-> amount,
                                           cost |-> cost])]
        ELSE [capital |-> capital, position |-> position, trades |-> trades]
    ELSE IF side = "sell" THEN
        IF amount <= position
        THEN LET revenue == price * amount IN
             [capital  |-> capital + revenue,
              position |-> position - amount,
              trades   |-> Append(trades, [timestamp |-> timestamp, side |-> "sell",
                                           price |-> price, amount |-> amount,
                                           revenue |-> revenue])]
        ELSE [capital |-> capital, position |-> position, trades |-> trades]
    ELSE [capital |-> capital, position |-> position, trades |-> trades]

\* get_equity that leaves the price out of the position's value
get_equity_unpriced(current_price) == capital + position

\* BacktestEngine.get_equity
get_equity(current_price) == capital + (position * current_price)

\* record_equity that skips a step in which no trade was made
record_equity_on_trade(current_price, timestamp) ==
    IF \E n \in 1..Len(trades) : trades[n].timestamp = timestamp
    THEN Append(equity_curve, [timestamp      |-> timestamp,
                               equity         |-> capital + (position * current_price),
                               capital        |-> capital,
                               position_value |-> position * current_price])
    ELSE equity_curve

\* BacktestEngine.record_equity: the equity curve after the call
record_equity(current_price, timestamp) ==
    Append(equity_curve, [timestamp      |-> timestamp,
                          equity         |-> get_equity(current_price),
                          capital        |-> capital,
                          position_value |-> position * current_price])

----------------------------------------------------------------------------
(* GridTradingStrategy (backtest_csv.py)                                   *)

lower_price  == 90
upper_price  == 110
grid_num     == 4
total_amount == initial_capital

grid_step == (upper_price - lower_price) \div grid_num

\* range(grid_num + 1): the level indices in the order of self.grid_prices
LevelSeq == [n \in 1..(grid_num + 1) |-> n - 1]

\* self.grid_prices[j]
grid_price(j) == lower_price + (grid_step * j)

\* the closing prices a row of the history may carry: the grid levels and
\* one price above the grid
Prices == {grid_price(j) : j \in 0..(grid_num + 1)}

\* (self.total_amount / 2) / (self.grid_num / 2) / price
grid_amount(price) == ((total_amount \div 2) \div (grid_num \div 2)) \div price

GridSignal(side, current_price, j, timestamp) ==
    [side |-> side, price |-> current_price,
     amount |-> grid_amount(grid_price(j)), timestamp |-> timestamp]

\* the first call with price <= current_price: the level at the price is bought too
BootstrapLevels_at_or_below(current_price) ==
    SelectSeq(LevelSeq, LAMBDA j : grid_price(j) <= current_price)

\* first call (not self.initialized): a buy for every level below the price
BootstrapLevels(current_price) ==
    SelectSeq(LevelSeq, LAMBDA j : grid_price(j) < current_price)

\* later calls, first loop: levels crossed downward that are empty,
\* in the order of sorted(self.grid_prices)
BuyLevels(current_price) ==
    SelectSeq(LevelSeq, LAMBDA j : /\ last_price > grid_price(j)
                                   /\ grid_price(j) >= current_price
                                   /\ grid_status[j] = "empty")

StatusAfterBuys(current_price) ==
    [j \in DOMAIN grid_status |->
        IF \E n \in 1..Len(BuyLevels(current_price)) : BuyLevels(current_price)[n] = j
        THEN "filled" ELSE grid_status[j]]

\* the second loop without the test of self.grid_status[price]
SellLevels_any_status(current_price) ==
    SelectSeq(Reverse(LevelSeq), LAMBDA j : /\ last_price < grid_price(j)
                                            /\ grid_price(j) <= current_price)

\* later calls, second loop: levels crossed upward that are filled,
\* in the order of sorted(self.grid_prices, reverse=True)
SellLevels(current_price) ==
    SelectSeq(Reverse(LevelSeq), LAMBDA j : /\ last_price < grid_price(j)
                                            /\ grid_price(j) <= current_price
                                            /\ StatusAfterBuys(current_price)[j] = "filled")

\* GridTradingStrategy.get_signals: the list returned
GridTradingStrategy_signals(current_price, timestamp) ==
    IF ~initialized
    THEN LET b == BootstrapLevels(current_price)
         IN  [n \in 1..Len(b) |-> GridSignal("buy", current_price, b[n], timestamp)]
    ELSE LET b == BuyLevels(current_price)
             s == SellLevels(current_price)
         IN  [n \in 1..Len(b) |-> GridSignal("buy", current_price, b[n], timestamp)]
             \o [n \in 1..Len(s) |-> GridSignal("sell", current_price, s[n], timestamp)]

\* GridTradingStrategy.get_signals: self.grid_status after the call
GridTradingStrategy_status(current_price) ==
    IF ~initialized
    THEN [j \in DOMAIN grid_status |->
            IF grid_price(j) < current_price THEN "filled" ELSE grid_status[j]]
    ELSE [j \in DOMAIN grid_status |->
            IF \E n \in 1..Len(SellLevels(current_price)) : SellLevels(current_price)[n] = j
            THEN "empty" ELSE StatusAfterBuys(current_price)[j]]

\* get_signals without the last statement before the second return: last_price
\* stays the price of the first call
GridTradingStrategy_get_signals_stale_last_price(current_price, timestamp) ==
    /\ signals' = GridTradingStrategy_signals(current_price, timestamp)
    /\ grid_prices' = grid_prices
    /\ grid_status' = GridTradingStrategy_status(current_price)
    /\ initialized' = TRUE
    /\ last_price' = IF initialized THEN last_price ELSE current_price

\* GridTradingStrategy.get_signals as a step of the strategy object
GridTradingStrategy_get_signals(current_price, timestamp) ==
    /\ signals' = GridTradingStrategy_signals(current_price, timestamp)
    /\ grid_prices' = grid_prices
    /\ grid_status' = GridTradingStrategy_status(current_price)
    /\ initialized' = TRUE
    /\ last_price' = current_price

----------------------------------------------------------------------------
(* run_backtest (backtest_csv.py)                                          *)

\* engine = BacktestEngine(initial_capital); strategy = GridTradingStrategy(...)
Init ==
    /\ runner = "run_backtest"
    /\ strategy = "GridTradingStrategy"
    /\ df \in SeqsUpTo(Prices, MaxLen)
    /\ pc = "loop"
    /\ i = 0
    /\ signals = <<>>
    /\ k = 1
    /\ capital = initial_capital
    /\ position = 0
    /\ trades = <<>>
    /\ equity_curve = <<>>
    /\ grid_prices = [n \in 1..(grid_num + 1) |-> grid_price(LevelSeq[n])]
    /\ grid_status = [j \in 0..grid_num |-> "empty"]
    /\ last_price = None
    /\ initialized = FALSE
    /\ entry_price = None
    /\ in_position = FALSE
    /\ metrics = NoMetrics
    /\ run_no = 1
    /\ previous = NoResult
    /\ current_test = 0
    /\ results = <<>>
    /\ results_df = <<>>
    /\ signal_log = <<>>
    /\ safety = NoBot
    /\ exchange = NoBot
    /\ bot = NoBot
    /\ slack = {}

\* for timestamp, row in df.iterrows(): signals = strategy.get_signals(...)
run_backtest_get_signals ==
    /\ runner = "run_backtest"
    /\ pc = "loop"
    /\ i < Len(df)
    /\ i' = i + 1
    /\ GridTradingStrategy_get_signals(df[i + 1], i + 1)
    /\ k' = 1
    /\ pc' = "apply"
    /\ UNCHANGED <<runner, strategy, df, metrics, entry_price, in_position>>
    /\ signal_log' = Append(signal_log, signals')
    /\ UNCHANGED botVars
    /\ UNCHANGED <<run_no, previous>>
    /\ UNCHANGED optimizerVars
    /\ UNCHANGED ledgerVars

\* the inner loop walking the list backwards
NextSignalReversed == signals[Len(signals) + 1 - k]

\* the signal the inner for loop hands to execute_trade next
NextSignal == signals[k]

\* execute_trade stamping the trade with the wall clock, not the row's timestamp
run_backtest_execute_trade_wallclock ==
    /\ runner = "run_backtest"
    /\ pc = "apply"
    /\ k <= Len(signals)
    /\ \E now \in {i, i + 1} :
          LET after == BacktestEngine_execute_trade(NextSignal.price, NextSignal.amount,
                                                    NextSignal.side, now)
          IN  /\ capital' = after.capital
              /\ position' = after.position
              /\ trades' = after.trades
    /\ k' = k + 1
    /\ UNCHANGED <<runner, strategy, df, pc, i, signals, metrics, equity_curve>>
    /\ UNCHANGED callVars
    /\ UNCHANGED strategyVars

\* for signal in signals: engine.execute_trade(...)
run_backtest_execute_trade ==
    /\ runner = "run_backtest"
    /\ pc = "apply"
    /\ k <= Len(signals)
    /\ LET after == BacktestEngine_execute_trade(NextSignal.price, NextSignal.amount,
                                                 NextSignal.side, i)
       IN  /\ capital' = after.capital
           /\ position' = after.position
           /\ trades' = after.trades
    /\ k' = k + 1
    /\ UNCHANGED <<runner, strategy, df, pc, i, signals, metrics, equity_curve>>
    /\ UNCHANGED callVars
    /\ UNCHANGED strategyVars

\* engine.record_equity(current_price, timestamp), the last statement of the loop body
run_backtest_record_equity ==
    /\ runner = "run_backtest"
    /\ pc = "apply"
    /\ k > Len(signals)
    /\ equity_curve' = record_equity(df[i], i)
    /\ pc' = "loop"
    /\ UNCHANGED <<runner, strategy, df, i, signals, k, metrics, capital, position, trades>>
    /\ UNCHANGED callVars
    /\ UNCHANGED strategyVars

\* equity_df['equity'].pct_change().dropna(), in units of 1/1000
daily_returns(curve) ==
    [n \in 1..(Len(curve) - 1) |->
        ((curve[n + 1].equity - curve[n].equity) * 10^3) \div curve[n].equity]

\* steps n and m of the curve have the same return, decided exactly:
\* (e[n+1] - e[n]) / e[n] = (e[m+1] - e[m]) / e[m]
same_return(curve, n, m) ==
    LET dn == curve[n + 1].equity - curve[n].equity
        dm == curve[m + 1].equity - curve[m].equity
    IN  /\ (dn < 0) = (dm < 0)
        /\ Product(Max(dn, -dn), curve[m].equity) = Product(Max(dm, -dm), curve[n].equity)

\* the Sharpe ratio in hundredths: 0 unless there are returns and
\* daily_returns.std() > 0 (std() of one return is NaN, of equal returns 0),
\* else mean / std * sqrt(365)
sharpe_ratio(curve) ==
    LET r  == daily_returns(curve)
        n  == Len(r)
        s1 == SumSeq(r)
        s2 == SumSeq([m \in 1..n |-> r[m] * r[m]])
    IN  IF n < 2 \/ \A m \in 1..n : same_return(curve, 1, m) THEN 0
        ELSE LET sd == Max(1, ISqrt(((n * s2) - (s1 * s1)) \div (n * (n - 1))))
             IN  (s1 * (SQRT_365 \div 10)) \div (n * sd * 10)

\* the sign of cagr: 0 unless years > 0, else the sign of
\* pow(final_equity / initial_capital, 1 / years) - 1
cagr_sign(curve, initial) ==
    LET days == Last(curve).timestamp - curve[1].timestamp
    IN  IF days <= 0 \/ Last(curve).equity = initial THEN 0
        ELSE IF Last(curve).equity > initial THEN 1 ELSE 0 - 1

\* buy_trades and sell_trades of the win-rate block
buy_trades(trade_log) == SelectSeq(trade_log, LAMBDA t : t.side = "buy")
sell_trades(trade_log) == SelectSeq(trade_log, LAMBDA t : t.side = "sell")

\* matching_buys = [b for b in buy_trades if b['timestamp'] < sell['timestamp']]
matching_buys(trade_log, sell) ==
    SelectSeq(buy_trades(trade_log), LAMBDA b : b.timestamp < sell.timestamp)

\* the sells that append a profit: those with a matching buy
paired_sells(trade_log) ==
    SelectSeq(sell_trades(trade_log), LAMBDA sell : matching_buys(trade_log, sell) # <<>>)

\* the sells paired with the first matching buy instead of the last
winning_sells_first_buy(trade_log) ==
    SelectSeq(paired_sells(trade_log),
              LAMBDA sell : sell.price > matching_buys(trade_log, sell)[1].price)

\* the sells whose profit, (sell price - buy price) / buy price with
\* buy = matching_buys[-1], is positive
winning_sells(trade_log) ==
    SelectSeq(paired_sells(trade_log),
              LAMBDA sell : sell.price > Last(matching_buys(trade_log, sell)).price)

\* win_rate as printed, in hundredths of a percent
win_rate(trade_log) ==
    IF /\ Len(buy_trades(trade_log)) > 0
       /\ Len(sell_trades(trade_log)) > 0
       /\ Len(paired_sells(trade_log)) > 0
    THEN RoundDiv(Len(winning_sells(trade_log)) * 10^4, Len(paired_sells(trade_log)))
    ELSE 0

\* equity_df['equity'].max() at every point: the largest equity of the
\* whole curve in place of the running one
cummax_whole_curve(curve, n) ==
    CHOOSE x \in {curve[m].equity : m \in 1..Len(curve)} :
        \A m \in 1..Len(curve) : x >= curve[m].equity

\* equity_df['equity'].cummax() at point n
cummax(curve, n) ==
    CHOOSE x \in {curve[m].equity : m \in 1..n} : \A m \in 1..n : x >= curve[m].equity

\* (equity - cummax) / cummax * 100 at point n, in hundredths of a percent
\* (the quotient is formed without a product above 2^31)
drawdown(curve, n) ==
    LET fall == cummax(curve, n) - curve[n].equity
    IN  IF fall < 10^5
        THEN 0 - ((fall * 10^4) \div cummax(curve, n))
        ELSE 0 - ((fall * 10) \div (cummax(curve, n) \div 10^3))

\* max_drawdown = equity_df['drawdown'].min()
max_drawdown(curve) ==
    CHOOSE x \in {drawdown(curve, n) : n \in 1..Len(curve)} :
        \A n \in 1..Len(curve) : x <= drawdown(curve, n)

\* PerformanceAnalyzer.calculate_metrics: {} for an empty equity curve, else
\* the metrics of the run
calculate_metrics(curve, trade_log, initial) ==
    IF curve = <<>>
    THEN [computed |-> TRUE, empty |-> TRUE]
    ELSE [computed     |-> TRUE,
          empty        |-> FALSE,
          final_equity |-> Last(curve).equity,
          net_profit   |-> Last(curve).equity - initial,
          cagr_sign    |-> cagr_sign(curve, initial),
          max_drawdown |-> max_drawdown(curve),
          sharpe_ratio |-> sharpe_ratio(curve),
          win_rate     |-> win_rate(trade_log),
          trade_count  |-> Len(trade_log),
          days         |-> Last(curve).timestamp - curve[1].timestamp]

\* PerformanceAnalyzer.plot_results: equity_df = pd.DataFrame(equity_curve);
\* equity_df.set_index('timestamp') raises KeyError when the frame has no
\* 'timestamp' column, which is the frame of an empty equity curve
plot_results_raises(curve) == curve = <<>>

\* the for loop of run_backtest is exhausted: metrics = calculate_metrics(...)
run_backtest_calculate_metrics ==
    /\ runner = "run_backtest"
    /\ pc = "loop"
    /\ i = Len(df)
    /\ metrics' = calculate_metrics(equity_curve, trades, initial_capital)
    /\ pc' = "plot"
    /\ UNCHANGED <<runner, strategy, df, i, signals, k>>
    /\ UNCHANGED callVars
    /\ UNCHANGED ledgerVars
    /\ UNCHANGED strategyVars

\* PerformanceAnalyzer.plot_results(...), then return {'metrics': ..., ...}
run_backtest_plot_results ==
    /\ runner = "run_backtest"
    /\ pc = "plot"
    /\ pc' = IF plot_results_raises(equity_curve) THEN "KeyError" ELSE "returned"
    /\ UNCHANGED <<runner, strategy, df, i, signals, k, metrics>>
    /\ UNCHANGED callVars
    /\ UNCHANGED ledgerVars
    /\ UNCHANGED strategyVars

Next ==
    \/ run_backtest_get_signals
    \/ run_backtest_execute_trade
    \/ run_backtest_record_equity
    \/ run_backtest_calculate_metrics
    \/ run_backtest_plot_results

Spec == Init /\ [][Next]_vars

\* run_backtest called a second time with the same df, strategy_params and
\* initial_capital: a new BacktestEngine and a new GridTradingStrategy
run_backtest_again ==
    /\ runner = "run_backtest"
    /\ pc = "returned"
    /\ run_no = 1
    /\ run_no' = 2
    /\ UNCHANGED optimizerVars
    /\ previous' = [returned |-> TRUE, trades |-> trades, equity_curve |-> equity_curve,
                    metrics |-> metrics]
    /\ pc' = "loop"
    /\ i' = 0
    /\ signals' = <<>>
    /\ k' = 1
    /\ capital' = initial_capital
    /\ position' = 0
    /\ trades' = <<>>
    /\ equity_curve' = <<>>
    /\ grid_status' = [j \in 0..grid_num |-> "empty"]
    /\ last_price' = None
    /\ initialized' = FALSE
    /\ metrics' = NoMetrics
    /\ UNCHANGED <<runner, strategy, df, grid_prices, entry_price, in_position>>
    /\ signal_log' = <<>>
    /\ UNCHANGED botVars

TwiceNext ==
    \/ Next
    \/ run_backtest_again

TwiceSpec == Init /\ [][TwiceNext]_vars

----------------------------------------------------------------------------
(* PerformanceAnalyzer.calculate_metrics called on its own                 *)

\* the initial_capital argument
analyzer_initial_capital == 100

\* the prices of the trades and the equities of the curve points
TradePrices == {80, 90, 100, 110}
EquityValues == {90, 100, 110, 121}

\* trade logs in the order the engine appends them: one timestamp per
\* trade, or two trades per timestamp
TradeLogs ==
    {[n \in 1..Len(log) |->
        TradeRecord(log[n][2], 1, log[n][1],
                    IF stamps = "distinct" THEN n ELSE (n + 1) \div 2)] :
     log \in SeqsUpTo({"buy", "sell"} \X TradePrices, MaxTrades),
     stamps \in {"distinct", "paired"}}

\* equity curves with one point per day, or with all points on one day
EquityCurves ==
    {[n \in 1..Len(curve) |->
        [timestamp |-> IF stamps = "daily" THEN n ELSE 1, equity |-> curve[n]]] :
     curve \in SeqsUpTo(EquityValues, MaxPoints),
     stamps \in {"daily", "intraday"}}

\* the arguments of the call: any trade log with a curve of two points, or
\* any equity curve with an empty trade log
AnalyzerInit ==
    /\ runner = "calculate_metrics"
    /\ strategy = "PerformanceAnalyzer"
    /\ \/ /\ trades \in TradeLogs
          /\ equity_curve = <<[timestamp |-> 1, equity |-> 100],
                               [timestamp |-> 2, equity |-> 110]>>
       \/ /\ trades = <<>>
          /\ equity_curve \in EquityCurves
    /\ df = <<>>
    /\ pc = "call"
    /\ i = 0
    /\ signals = <<>>
    /\ k = 1
    /\ capital = analyzer_initial_capital
    /\ position = 0
    /\ grid_prices = <<>>
    /\ grid_status = [j \in 0..grid_num |-> "empty"]
    /\ last_price = None
    /\ initialized = FALSE
    /\ entry_price = None
    /\ in_position = FALSE
    /\ metrics = NoMetrics
    /\ run_no = 1
    /\ previous = NoResult
    /\ current_test = 0
    /\ results = <<>>
    /\ results_df = <<>>
    /\ signal_log = <<>>
    /\ safety = NoBot
    /\ exchange = NoBot
    /\ bot = NoBot
    /\ slack = {}

\* a calculate_metrics that consumes the trade log it is given
analyzer_calculate_metrics_consuming ==
    /\ runner = "calculate_metrics"
    /\ pc = "call"
    /\ run_no <= 2
    /\ metrics' = calculate_metrics(equity_curve, trades, analyzer_initial_capital)
    /\ trades' = IF trades = <<>> THEN trades ELSE Tail(trades)
    /\ previous' = IF run_no = 1
                   THEN [returned |-> TRUE, trades |-> trades,
                         equity_curve |-> equity_curve, metrics |-> metrics']
                   ELSE previous
    /\ run_no' = run_no + 1
    /\ UNCHANGED optimizerVars
    /\ UNCHANGED <<runner, strategy, df, pc, i, signals, k, capital, position, equity_curve>>
    /\ UNCHANGED strategyVars
    /\ UNCHANGED signal_log
    /\ UNCHANGED botVars

\* metrics = PerformanceAnalyzer.calculate_metrics(equity_curve, trades,
\* initial_capital), called once and then once more on the same arguments;
\* the frames it builds are copies, the lists passed in are only read
analyzer_calculate_metrics ==
    /\ runner = "calculate_metrics"
    /\ pc = "call"
    /\ run_no <= 2
    /\ metrics' = calculate_metrics(equity_curve, trades, analyzer_initial_capital)
    /\ previous' = IF run_no = 1
                   THEN [returned |-> TRUE, trades |-> trades,
                         equity_curve |-> equity_curve, metrics |-> metrics']
                   ELSE previous
    /\ run_no' = run_no + 1
    /\ UNCHANGED optimizerVars
    /\ UNCHANGED <<runner, strategy, df, pc, i, signals, k>>
    /\ UNCHANGED ledgerVars
    /\ UNCHANGED strategyVars
    /\ UNCHANGED signal_log
    /\ UNCHANGED botVars

AnalyzerNext == analyzer_calculate_metrics

AnalyzerSpec == AnalyzerInit /\ [][AnalyzerNext]_vars

----------------------------------------------------------------------------
(* execute_trade of the strategy classes (advanced_strategies.py)          *)

\* ImprovedGridStrategy.execute_trade: the object after the call, as
\* [capital, position, trades, entry_price]
ImprovedGridStrategy_execute_trade(signal) ==
    IF signal.side = "buy" THEN
        LET cost == signal.price * signal.amount IN
        IF cost <= capital
        THEN [capital  |-> capital - cost,
              position |-> position + signal.amount,
              trades   |-> Append(trades, signal),
              entry_price |-> entry_price]
        ELSE [capital |-> capital, position |-> position, trades |-> trades,
              entry_price |-> entry_price]
    ELSE IF signal.side = "sell" THEN
        IF signal.amount <= position
        THEN LET revenue == signal.price * signal.amount IN
             [capital  |-> capital + revenue,
              position |-> position - signal.amount,
              trades   |-> Append(trades, signal),
              entry_price |-> IF position - signal.amount = 0 THEN None ELSE entry_price]
        ELSE [capital |-> capital, position |-> position, trades |-> trades,
              entry_price |-> entry_price]
    ELSE [capital |-> capital, position |-> position, trades |-> trades,
          entry_price |-> entry_price]

\* MomentumStrategy.execute_trade
MomentumStrategy_execute_trade(signal) ==
    IF signal.side = "buy" THEN
        LET cost == signal.price * signal.amount IN
        IF cost <= capital
        THEN [capital  |-> capital - cost,
              position |-> position + signal.amount,
              trades   |-> Append(trades, signal),
              entry_price |-> entry_price]
        ELSE [capital |-> capital, position |-> position, trades |-> trades,
              entry_price |-> entry_price]
    ELSE IF signal.side = "sell" THEN
        IF signal.amount <= position
        THEN LET revenue == signal.price * signal.amount IN
             [capital  |-> capital + revenue,
              position |-> position - signal.amount,
              trades   |-> Append(trades, signal),
              entry_price |-> entry_price]
        ELSE [capital |-> capital, position |-> position, trades |-> trades,
              entry_price |-> entry_price]
    ELSE [capital |-> capital, position |-> position, trades |-> trades,
          entry_price |-> entry_price]

\* MeanReversionStrategy.execute_trade
MeanReversionStrategy_execute_trade(signal) ==
    IF signal.side = "buy" THEN
        LET cost == signal.price * signal.amount IN
        IF cost <= capital
        THEN [capital  |-> capital - cost,
              position |-> position + signal.amount,
              trades   |-> Append(trades, signal),
              entry_price |-> entry_price]
        ELSE [capital |-> capital, position |-> position, trades |-> trades,
              entry_price |-> entry_price]
    ELSE IF signal.side = "sell" THEN
        IF signal.amount <= position
        THEN LET revenue == signal.price * signal.amount IN
             [capital  |-> capital + revenue,
              position |-> position - signal.amount,
              trades   |-> Append(trades, signal),
              entry_price |-> entry_price]
        ELSE [capital |-> capital, position |-> position, trades |-> trades,
              entry_price |-> entry_price]
    ELSE [capital |-> capital, position |-> position, trades |-> trades,
          entry_price |-> entry_price]

\* strategy.execute_trade(signal) of the strategy object of the run
strategy_execute_trade(signal) ==
    CASE strategy = "ImprovedGridStrategy"  -> ImprovedGridStrategy_execute_trade(signal)
      [] strategy = "MomentumStrategy"      -> MomentumStrategy_execute_trade(signal)
      [] strategy = "MeanReversionStrategy" -> MeanReversionStrategy_execute_trade(signal)

----------------------------------------------------------------------------
(* execute_trade called directly with any signal                           *)

LedgerClasses == {"BacktestEngine", "ImprovedGridStrategy", "MomentumStrategy",
                  "MeanReversionStrategy"}

\* the signals a caller may pass: {side, price, amount, timestamp}
LedgerSignals(timestamp) ==
    [side : {"buy", "sell"}, price : {1, 2}, amount : 1..MaxSignalAmount,
     timestamp : {timestamp}]

\* a freshly constructed ledger object of one of the four classes
LedgerInit ==
    /\ runner = "execute_trade"
    /\ strategy \in LedgerClasses
    /\ df = <<>>
    /\ pc = "call"
    /\ i = 0
    /\ signals = <<>>
    /\ k = 1
    /\ capital = LedgerCapital
    /\ position = 0
    /\ trades = <<>>
    /\ equity_curve = <<>>
    /\ grid_prices = <<>>
    /\ grid_status = [j \in 0..grid_num |-> "empty"]
    /\ last_price = None
    /\ initialized = FALSE
    /\ entry_price = None
    /\ in_position = FALSE
    /\ metrics = NoMetrics
    /\ run_no = 1
    /\ previous = NoResult
    /\ current_test = 0
    /\ results = <<>>
    /\ results_df = <<>>
    /\ signal_log = <<>>
    /\ safety = NoBot
    /\ exchange = NoBot
    /\ bot = NoBot
    /\ slack = {}

\* engine.execute_trade(price, amount, side, timestamp)
Ledger_engine_execute_trade ==
    /\ runner = "execute_trade"
    /\ strategy = "BacktestEngine"
    /\ k <= MaxCalls
    /\ \E signal \in LedgerSignals(k) :
          /\ signals' = Append(signals, signal)
          /\ LET after == BacktestEngine_execute_trade(signal.price, signal.amount,
                                                       signal.side, k)
             IN  /\ capital' = after.capital
                 /\ position' = after.position
                 /\ trades' = after.trades
    /\ k' = k + 1
    /\ UNCHANGED <<runner, strategy, df, pc, i, metrics, equity_curve>>
    /\ UNCHANGED callVars
    /\ UNCHANGED strategyVars

\* strategy.execute_trade(signal)
Ledger_strategy_execute_trade ==
    /\ runner = "execute_trade"
    /\ strategy # "BacktestEngine"
    /\ k <= MaxCalls
    /\ \E signal \in LedgerSignals(k) :
          /\ signals' = Append(signals, signal)
          /\ LET after == strategy_execute_trade(signal)
             IN  /\ capital' = after.capital
                 /\ position' = after.position
                 /\ trades' = after.trades
                 /\ entry_price' = after.entry_price
    /\ k' = k + 1
    /\ UNCHANGED <<runner, strategy, df, pc, i, metrics, equity_curve>>
    /\ UNCHANGED callVars
    /\ UNCHANGED <<grid_prices, grid_status, last_price, initialized, in_position>>

LedgerNext ==
    \/ Ledger_engine_execute_trade
    \/ Ledger_strategy_execute_trade

LedgerSpec == LedgerInit /\ [][LedgerNext]_vars

----------------------------------------------------------------------------
(* Series statistics of the run_strategy_comparison replay                 *)

\* float('nan') where a volatility or an amount is expected: a value neither takes
NaN == 0 - 2

\* price_history[-n:]
Window(price_history, n) ==
    IF Len(price_history) <= n THEN price_history
    ELSE SubSeq(price_history, Len(price_history) - n + 1, Len(price_history))

\* price_history.pct_change() without its leading NaN, in units of 1/SCALE
pct_change(price_history) ==
    [n \in 1..(Len(price_history) - 1) |->
        ((price_history[n + 1] - price_history[n]) * SCALE) \div price_history[n]]

\* Series.std(): the sample standard deviation (ddof = 1), NaN for fewer
\* than two values
std(values) ==
    LET n  == Len(values)
        s1 == SumSeq(values)
        s2 == SumSeq([m \in 1..n |-> values[m] * values[m]])
    IN  IF n < 2 THEN NaN
        ELSE ISqrt(((n * s2) - (s1 * s1)) \div (n * (n - 1)))

----------------------------------------------------------------------------
(* ImprovedGridStrategy (advanced_strategies.py)                           *)

\* the constructor's defaults, and initial_capital of run_strategy_comparison
ImprovedGrid_grid_num == 15
stop_loss_pct == 15
comparison_capital == 10000

\* range_pct = max(0.15, volatility): the range without its upper limit
range_pct_no_upper_limit(price_history) ==
    LET sd == std(pct_change(price_history))
    IN  IF sd = NaN THEN (15 * SCALE) \div 100
        ELSE Max((15 * SCALE) \div 100, (sd * SQRT_365) \div SCALE)

\* ImprovedGridStrategy.calculate_dynamic_range: range_pct, in units of 1/SCALE
\* (max(0.15, nan) is 0.15)
range_pct(price_history) ==
    LET sd == std(pct_change(price_history))
    IN  IF sd = NaN THEN (15 * SCALE) \div 100
        ELSE Min((30 * SCALE) \div 100,
                 Max((15 * SCALE) \div 100, (sd * SQRT_365) \div SCALE))

\* ImprovedGridStrategy.calculate_dynamic_range: (lower_price, upper_price),
\* prices in units of 1/SCALE
calculate_dynamic_range(price_history) ==
    LET current_price == Last(price_history)
    IN  <<current_price * (SCALE - range_pct(price_history)),
          current_price * (SCALE + range_pct(price_history))>>

\* ImprovedGridStrategy.calculate_position_size
calculate_position_size(price_history) ==
    LET volatility == std(pct_change(price_history))
    IN  IF volatility = NaN THEN NaN
        ELSE MulDiv(capital \div 2, SCALE, SCALE + (volatility * 10))

\* ImprovedGridStrategy.check_stop_loss
check_stop_loss(current_price) ==
    IF entry_price = None \/ position = 0 THEN FALSE
    ELSE (current_price - entry_price) * 100 < -(stop_loss_pct * entry_price)

\* the grid rebuilt by get_signals: self.grid_prices, in units of 1/SCALE
dynamic_grid_prices(price_history) ==
    LET range == calculate_dynamic_range(Window(price_history, volatility_window))
        dyn_step == (range[2] - range[1]) \div ImprovedGrid_grid_num
    IN  [n \in 1..(ImprovedGrid_grid_num + 1) |-> range[1] + (dyn_step * (n - 1))]

\* the amount of a grid_buy: min(position_size / grid_num / current_price,
\* capital / current_price * 0.9); NaN when position_size is NaN
grid_buy_amount(price_history) ==
    LET position_size == calculate_position_size(Window(price_history, volatility_window))
        current_price == Last(price_history)
    IN  IF position_size = NaN THEN NaN
        ELSE Min((position_size \div ImprovedGrid_grid_num) \div current_price,
                 ((capital \div current_price) * 9) \div 10)

\* the amount of a grid_sell: min(position / (grid_num / 2), position * 0.9)
grid_sell_amount ==
    Min((position * 2) \div ImprovedGrid_grid_num, (position * 9) \div 10)

\* what the loop over self.grid_prices appends for one level
grid_level_signals(level, price_history, timestamp) ==
    LET current_price == Last(price_history) IN
    IF last_price * SCALE > level /\ level >= current_price * SCALE
    THEN IF capital > 0 /\ grid_buy_amount(price_history) # NaN
                        /\ grid_buy_amount(price_history) > 0
         THEN <<[side |-> "buy", price |-> current_price,
                 amount |-> grid_buy_amount(price_history),
                 timestamp |-> timestamp, reason |-> "grid_buy"]>>
         ELSE <<>>
    ELSE IF last_price * SCALE < level /\ level <= current_price * SCALE
    THEN IF position > 0 /\ grid_sell_amount > 0
         THEN <<[side |-> "sell", price |-> current_price,
                 amount |-> grid_sell_amount,
                 timestamp |-> timestamp, reason |-> "grid_sell"]>>
         ELSE <<>>
    ELSE <<>>

RECURSIVE grid_signals_from(_, _, _, _)
\* the signals of levels n.. of the rebuilt grid, in the order of the loop
grid_signals_from(n, levels, price_history, timestamp) ==
    IF n > Len(levels) THEN <<>>
    ELSE grid_level_signals(levels[n], price_history, timestamp)
         \o grid_signals_from(n + 1, levels, price_history, timestamp)

\* get_signals that goes on to the grid after appending the stop-loss sell
ImprovedGridStrategy_signals_grid_after_stop(price_history, timestamp) ==
    (IF check_stop_loss(Last(price_history)) /\ position > 0
     THEN <<[side |-> "sell", price |-> Last(price_history), amount |-> position,
             timestamp |-> timestamp, reason |-> "stop_loss"]>>
     ELSE <<>>)
    \o (IF Len(price_history) >= volatility_window /\ last_price # None
        THEN grid_signals_from(1, dynamic_grid_prices(price_history), price_history, timestamp)
        ELSE <<>>)

\* ImprovedGridStrategy.get_signals: the list returned
ImprovedGridStrategy_signals(price_history, timestamp) ==
    IF check_stop_loss(Last(price_history))
    THEN IF position > 0
         THEN <<[side |-> "sell", price |-> Last(price_history), amount |-> position,
                 timestamp |-> timestamp, reason |-> "stop_loss"]>>
         ELSE <<>>
    ELSE IF Len(price_history) >= volatility_window /\ last_price # None
    THEN grid_signals_from(1, dynamic_grid_prices(price_history), price_history, timestamp)
    ELSE <<>>

\* get_signals whose stop-loss branch gives up the position but keeps
\* self.entry_price
ImprovedGridStrategy_get_signals_stale_entry(price_history, timestamp) ==
    LET current_price == Last(price_history)
        out == ImprovedGridStrategy_signals(price_history, timestamp)
    IN  /\ signals' = out
        /\ IF check_stop_loss(current_price)
           THEN /\ position' = 0
                /\ UNCHANGED <<grid_prices, last_price, entry_price>>
           ELSE /\ position' = position
                /\ grid_prices' = IF Len(price_history) >= volatility_window
                                  THEN dynamic_grid_prices(price_history)
                                  ELSE grid_prices
                /\ entry_price' = IF /\ entry_price = None
                                     /\ \E n \in 1..Len(out) : out[n].side = "buy"
                                  THEN current_price ELSE entry_price
                /\ last_price' = current_price
        /\ UNCHANGED <<capital, trades, grid_status, initialized, in_position>>

\* ImprovedGridStrategy.get_signals as a step of the strategy object
ImprovedGridStrategy_get_signals(price_history, timestamp) ==
    LET current_price == Last(price_history)
        out == ImprovedGridStrategy_signals(price_history, timestamp)
    IN  /\ signals' = out
        /\ IF check_stop_loss(current_price)
           THEN /\ position' = 0
                /\ entry_price' = None
                /\ UNCHANGED <<grid_prices, last_price>>
           ELSE /\ position' = position
                /\ grid_prices' = IF Len(price_history) >= volatility_window
                                  THEN dynamic_grid_prices(price_history)
                                  ELSE grid_prices
                /\ entry_price' = IF /\ entry_price = None
                                     /\ \E n \in 1..Len(out) : out[n].side = "buy"
                                  THEN current_price ELSE entry_price
                /\ last_price' = current_price
        /\ UNCHANGED <<capital, trades, grid_status, initialized, in_position>>

----------------------------------------------------------------------------
(* MomentumStrategy (advanced_strategies.py)                               *)

\* the constructor's threshold, 0.02, in percent
threshold_pct == 2

\* an order sized at 105% of the capital
all_in_amount_above_capital(current_price) ==
    MulDiv(capital, 105, 100) \div current_price

\* (self.capital * 0.95) / current_price
all_in_amount(current_price) == MulDiv(capital, 95, 100) \div current_price

\* momentum > x percent, for momentum =
\* price_history.pct_change(self.lookback).iloc[-1], which is NaN (and so
\* compares False) unless the history holds more than lookback samples
momentum_above(price_history, x) ==
    /\ Len(price_history) > lookback
    /\ LET old == price_history[Len(price_history) - lookback]
       IN  (Last(price_history) - old) * 100 > x * old

momentum_below(price_history, x) ==
    /\ Len(price_history) > lookback
    /\ LET old == price_history[Len(price_history) - lookback]
       IN  (Last(price_history) - old) * 100 < x * old

\* get_signals without the test of len(price_history), measuring momentum
\* from the oldest sample there is when the history is short
MomentumStrategy_signals_short_history(price_history, timestamp) ==
    LET old == price_history[Max(1, Len(price_history) - lookback)]
        current_price == Last(price_history)
    IN  IF (current_price - old) * 100 > threshold_pct * old /\ ~in_position
        THEN <<[side |-> "buy", price |-> current_price,
                amount |-> all_in_amount(current_price),
                timestamp |-> timestamp, reason |-> "momentum_up"]>>
        ELSE IF (current_price - old) * 100 < -(threshold_pct * old) /\ in_position
                /\ position > 0
        THEN <<[side |-> "sell", price |-> current_price, amount |-> position,
                timestamp |-> timestamp, reason |-> "momentum_down"]>>
        ELSE <<>>

\* MomentumStrategy.get_signals: the list returned
MomentumStrategy_signals(price_history, timestamp) ==
    IF Len(price_history) < lookback THEN <<>>
    ELSE IF momentum_above(price_history, threshold_pct) /\ ~in_position
    THEN IF all_in_amount(Last(price_history)) > 0
         THEN <<[side |-> "buy", price |-> Last(price_history),
                 amount |-> all_in_amount(Last(price_history)),
                 timestamp |-> timestamp, reason |-> "momentum_up"]>>
         ELSE <<>>
    ELSE IF momentum_below(price_history, -threshold_pct) /\ in_position
    THEN IF position > 0
         THEN <<[side |-> "sell", price |-> Last(price_history), amount |-> position,
                 timestamp |-> timestamp, reason |-> "momentum_down"]>>
         ELSE <<>>
    ELSE <<>>

\* get_signals whose buy branch does not set self.in_position
MomentumStrategy_get_signals_flag_not_set(price_history, timestamp) ==
    LET out == MomentumStrategy_signals(price_history, timestamp)
    IN  /\ signals' = out
        /\ in_position' = IF out = <<>> THEN in_position ELSE FALSE
        /\ UNCHANGED <<capital, position, trades, grid_prices, grid_status,
                       last_price, initialized, entry_price>>

\* MomentumStrategy.get_signals as a step of the strategy object:
\* in_position flips exactly when a signal is appended
MomentumStrategy_get_signals(price_history, timestamp) ==
    LET out == MomentumStrategy_signals(price_history, timestamp)
    IN  /\ signals' = out
        /\ in_position' = IF out = <<>> THEN in_position ELSE out[1].side = "buy"
        /\ UNCHANGED <<capital, position, trades, grid_prices, grid_status,
                       last_price, initialized, entry_price>>

----------------------------------------------------------------------------
(* MeanReversionStrategy (advanced_strategies.py)                          *)

\* the constructor's std_threshold (default 2.0): with ma_period samples
\* |z| is at most (ma_period - 1) / sqrt(ma_period), so the scaled-down
\* window needs a scaled-down threshold
std_threshold == 1

\* ma_period * (current_price - rolling mean)
z_numerator(price_history) ==
    (ma_period * Last(price_history)) - SumSeq(Window(price_history, ma_period))

\* ma_period * (ma_period - 1) * (rolling std)^2
z_spread(price_history) ==
    LET w == Window(price_history, ma_period)
    IN  (ma_period * SumSeq([n \in 1..Len(w) |-> w[n] * w[n]])) - (SumSeq(w) * SumSeq(w))

\* calculate_z_score(price_history) < -num/den, for num/den >= 0:
\* z = (current_price - ma) / std, and z = 0 when std == 0
z_score_below_minus(price_history, num, den) ==
    /\ z_spread(price_history) # 0
    /\ z_numerator(price_history) < 0
    /\ den * den * z_numerator(price_history) * z_numerator(price_history) * (ma_period - 1)
         > num * num * ma_period * z_spread(price_history)

\* the comparison without the std == 0 return: 0 / 0 is nan, which
\* compares False
z_score_above_minus_unguarded(price_history, num, den) ==
    /\ z_spread(price_history) # 0
    /\ \/ z_numerator(price_history) >= 0
       \/ den * den * z_numerator(price_history) * z_numerator(price_history) * (ma_period - 1)
            < num * num * ma_period * z_spread(price_history)

\* calculate_z_score(price_history) > -num/den, for num/den > 0
z_score_above_minus(price_history, num, den) ==
    \/ z_spread(price_history) = 0
    \/ z_numerator(price_history) >= 0
    \/ den * den * z_numerator(price_history) * z_numerator(price_history) * (ma_period - 1)
         < num * num * ma_period * z_spread(price_history)

\* get_signals that buys as soon as z < -0.5
MeanReversionStrategy_signals_early_entry(price_history, timestamp) ==
    IF Len(price_history) < ma_period THEN <<>>
    ELSE IF z_score_below_minus(price_history, 1, 2) /\ ~in_position
    THEN IF all_in_amount(Last(price_history)) > 0
         THEN <<[side |-> "buy", price |-> Last(price_history),
                 amount |-> all_in_amount(Last(price_history)),
                 timestamp |-> timestamp, reason |-> "oversold"]>>
         ELSE <<>>
    ELSE IF z_score_above_minus(price_history, 1, 2) /\ in_position
    THEN IF position > 0
         THEN <<[side |-> "sell", price |-> Last(price_history), amount |-> position,
                 timestamp |-> timestamp, reason |-> "mean_revert"]>>
         ELSE <<>>
    ELSE <<>>

\* get_signals with the overbought side: a sell while flat when
\* z > +std_threshold
MeanReversionStrategy_signals_short_side(price_history, timestamp) ==
    IF Len(price_history) < ma_period THEN <<>>
    ELSE IF z_score_below_minus(price_history, std_threshold, 1) /\ ~in_position
    THEN IF all_in_amount(Last(price_history)) > 0
         THEN <<[side |-> "buy", price |-> Last(price_history),
                 amount |-> all_in_amount(Last(price_history)),
                 timestamp |-> timestamp, reason |-> "oversold"]>>
         ELSE <<>>
    ELSE IF z_score_above_minus(price_history, 1, 2) /\ in_position
    THEN IF position > 0
         THEN <<[side |-> "sell", price |-> Last(price_history), amount |-> position,
                 timestamp |-> timestamp, reason |-> "mean_revert"]>>
         ELSE <<>>
    ELSE IF z_spread(price_history) # 0 /\ z_numerator(price_history) > 0
            /\ z_numerator(price_history) * z_numerator(price_history) * (ma_period - 1)
                 > std_threshold * std_threshold * ma_period * z_spread(price_history)
    THEN <<[side |-> "sell", price |-> Last(price_history),
            amount |-> all_in_amount(Last(price_history)),
            timestamp |-> timestamp, reason |-> "overbought"]>>
    ELSE <<>>

\* MeanReversionStrategy.get_signals: the list returned
MeanReversionStrategy_signals(price_history, timestamp) ==
    IF Len(price_history) < ma_period THEN <<>>
    ELSE IF z_score_below_minus(price_history, std_threshold, 1) /\ ~in_position
    THEN IF all_in_amount(Last(price_history)) > 0
         THEN <<[side |-> "buy", price |-> Last(price_history),
                 amount |-> all_in_amount(Last(price_history)),
                 timestamp |-> timestamp, reason |-> "oversold"]>>
         ELSE <<>>
    ELSE IF z_score_above_minus(price_history, 1, 2) /\ in_position
    THEN IF position > 0
         THEN <<[side |-> "sell", price |-> Last(price_history), amount |-> position,
                 timestamp |-> timestamp, reason |-> "mean_revert"]>>
         ELSE <<>>
    ELSE <<>>

\* MeanReversionStrategy.get_signals as a step of the strategy object
MeanReversionStrategy_get_signals(price_history, timestamp) ==
    LET out == MeanReversionStrategy_signals(price_history, timestamp)
    IN  /\ signals' = out
        /\ in_position' = IF out = <<>> THEN in_position ELSE out[1].side = "buy"
        /\ UNCHANGED <<capital, position, trades, grid_prices, grid_status,
                       last_price, initialized, entry_price>>

----------------------------------------------------------------------------
(* run_strategy_comparison (advanced_strategies.py)                        *)

\* the closing prices a row of the history may carry
ComparePrices == {136, 200, 203}

\* the classes of the strategies dict
ComparedStrategies == {"ImprovedGridStrategy", "MomentumStrategy", "MeanReversionStrategy"}

\* strategies = {...: ImprovedGridStrategy(initial_capital), ...}; equity_curve = []
CompareInit ==
    /\ runner = "run_strategy_comparison"
    /\ strategy \in ComparedStrategies
    /\ df \in SeqsUpTo(ComparePrices, CompareMaxLen)
    /\ pc = "loop"
    /\ i = 0
    /\ signals = <<>>
    /\ k = 1
    /\ capital = comparison_capital * SCALE
    /\ position = 0
    /\ trades = <<>>
    /\ equity_curve = <<>>
    /\ grid_prices = <<>>
    /\ grid_status = [j \in 0..grid_num |-> "empty"]
    /\ last_price = None
    /\ initialized = FALSE
    /\ entry_price = None
    /\ in_position = FALSE
    /\ metrics = NoMetrics
    /\ run_no = 1
    /\ previous = NoResult
    /\ current_test = 0
    /\ results = <<>>
    /\ results_df = <<>>
    /\ signal_log = <<>>
    /\ safety = NoBot
    /\ exchange = NoBot
    /\ bot = NoBot
    /\ slack = {}

\* price_history = df['close']: the whole column, later rows included
PriceHistory_whole_column(n) == df

\* price_history = df['close'].iloc[:i+1]
PriceHistory(n) == SubSeq(df, 1, n)

\* strategy.get_signals(price_history, timestamp) of the strategy of the run
strategy_get_signals(price_history, timestamp) ==
    CASE strategy = "ImprovedGridStrategy" ->
            ImprovedGridStrategy_get_signals(price_history, timestamp)
      [] strategy = "MomentumStrategy" ->
            MomentumStrategy_get_signals(price_history, timestamp)
      [] strategy = "MeanReversionStrategy" ->
            MeanReversionStrategy_get_signals(price_history, timestamp)

\* for i in range(len(df)): signals = strategy.get_signals(price_history, timestamp)
compare_get_signals ==
    /\ runner = "run_strategy_comparison"
    /\ pc = "loop"
    /\ i < Len(df)
    /\ i' = i + 1
    /\ strategy_get_signals(PriceHistory(i + 1), i + 1)
    /\ k' = 1
    /\ pc' = "apply"
    /\ UNCHANGED <<runner, strategy, df, metrics, equity_curve>>
    /\ signal_log' = Append(signal_log, signals')
    /\ UNCHANGED botVars
    /\ UNCHANGED <<run_no, previous>>
    /\ UNCHANGED optimizerVars

\* for signal in signals: strategy.execute_trade(signal)
compare_execute_trade ==
    /\ runner = "run_strategy_comparison"
    /\ pc = "apply"
    /\ k <= Len(signals)
    /\ LET after == strategy_execute_trade(NextSignal)
       IN  /\ capital' = after.capital
           /\ position' = after.position
           /\ trades' = after.trades
           /\ entry_price' = after.entry_price
    /\ k' = k + 1
    /\ UNCHANGED <<runner, strategy, df, pc, i, signals, metrics, equity_curve>>
    /\ UNCHANGED callVars
    /\ UNCHANGED <<grid_prices, grid_status, last_price, initialized, in_position>>

\* equity = strategy.capital + (strategy.position * current_price);
\* equity_curve.append({'timestamp': timestamp, 'equity': equity})
compare_equity(current_price, timestamp) ==
    Append(equity_curve, [timestamp |-> timestamp,
                          equity    |-> capital + (position * current_price)])

compare_record_equity ==
    /\ runner = "run_strategy_comparison"
    /\ pc = "apply"
    /\ k > Len(signals)
    /\ equity_curve' = compare_equity(df[i], i)
    /\ pc' = "loop"
    /\ UNCHANGED <<runner, strategy, df, i, signals, k, metrics, capital, position, trades>>
    /\ UNCHANGED callVars
    /\ UNCHANGED strategyVars

\* after the loop: final_equity = equity_df['equity'].iloc[-1], which raises
\* KeyError on the frame of an empty equity curve; else results[name] = {...}
compare_results ==
    /\ runner = "run_strategy_comparison"
    /\ pc = "loop"
    /\ i = Len(df)
    /\ IF equity_curve = <<>>
       THEN /\ pc' = "KeyError"
            /\ metrics' = metrics
       ELSE /\ pc' = "returned"
            /\ metrics' = [computed     |-> TRUE,
                           final_equity |-> Last(equity_curve).equity,
                           trade_count  |-> Len(trades)]
    /\ UNCHANGED <<runner, strategy, df, i, signals, k>>
    /\ UNCHANGED callVars
    /\ UNCHANGED ledgerVars
    /\ UNCHANGED strategyVars

CompareNext ==
    \/ compare_get_signals
    \/ compare_execute_trade
    \/ compare_record_equity
    \/ compare_results

CompareSpec == CompareInit /\ [][CompareNext]_vars

----------------------------------------------------------------------------
(* optimize_parameters (backtest_csv.py): the grid of one combination      *)

\* initial_capital of optimize_parameters (its default)
optimizer_capital == 10000

\* grid_nums = [10, 15, 20, 25, 30]; range_ratios = [0.7, 0.8, 0.9, 1.0], in tenths
grid_nums == <<10, 15, 20, 25, 30>>
range_ratios == <<7, 8, 9, 10>>

total_tests == Len(grid_nums) * Len(range_ratios)

\* the rows of df: low, high and close of a candle
Candles == {[low |-> 100, high |-> 100, close |-> 100],
            [low |-> 90,  high |-> 110, close |-> 95],
            [low |-> 100, high |-> 120, close |-> 120]}

\* price_min = df['low'].min(); price_max = df['high'].max()
price_min == CHOOSE x \in {df[n].low : n \in 1..Len(df)} :
                \A n \in 1..Len(df) : x <= df[n].low
price_max == CHOOSE x \in {df[n].high : n \in 1..Len(df)} :
                \A n \in 1..Len(df) : x >= df[n].high
price_range == price_max - price_min

\* the (grid_num, range_ratio) of the t-th pass of the nested for loops
Combination(t) ==
    [grid_num    |-> grid_nums[((t - 1) \div Len(range_ratios)) + 1],
     range_ratio |-> range_ratios[((t - 1) % Len(range_ratios)) + 1]]

\* level j of GridTradingStrategy(lower_price, upper_price, grid_num), times
\* 20 * grid_num, which makes it an integer:
\* lower_price = price_min + price_range * (1 - range_ratio) / 2,
\* upper_price = price_max - price_range * (1 - range_ratio) / 2,
\* level = lower_price + (upper_price - lower_price) / grid_num * j
optimize_level(combination, j) ==
    (price_min * 20 * combination.grid_num)
    + (price_range * (10 - combination.range_ratio) * combination.grid_num)
    + (2 * price_range * combination.range_ratio * j)

\* self.grid_prices of the combination, each times 20 * grid_num; the
\* min() and max() of an empty column are nan, and so are the levels
optimize_grid_prices(combination) ==
    [n \in 1..(combination.grid_num + 1) |->
        IF df = <<>> THEN NaN ELSE optimize_level(combination, n - 1)]

\* a price on the scale of the levels of the grid in use
on_grid_scale(price) == price * 20 * (Len(grid_prices) - 1)

\* (self.total_amount / 2) / (self.grid_num / 2) / price for a level of the
\* grid in use, in units of 1/SCALE
optimize_amount(level) == MulDiv(optimizer_capital * SCALE, 20, level)

\* the level at position n of the list is not met earlier in the list: the
\* entry of self.grid_status, a dict keyed by price, that the loop has not
\* changed yet
first_in(levels, n) == \A m \in 1..(n - 1) : levels[m] # levels[n]

optimize_signal(side, current_price, level, timestamp) ==
    [side |-> side, price |-> current_price,
     amount |-> optimize_amount(level), timestamp |-> timestamp]


\* GridTradingStrategy.get_signals, first call: the levels below the price
optimize_bootstrap_levels(current_price) ==
    SelectSeq(grid_prices, LAMBDA level : level < on_grid_scale(current_price))

\* later calls, first loop: the empty levels crossed downward
optimize_buy_levels(current_price) ==
    LET crossed == SelectSeq([n \in 1..Len(grid_prices) |-> n],
                       LAMBDA n : /\ on_grid_scale(last_price) > grid_prices[n]
                                  /\ grid_prices[n] >= on_grid_scale(current_price)
                                  /\ grid_status[grid_prices[n]] = "empty"
                                  /\ first_in(grid_prices, n))
    IN  [m \in 1..Len(crossed) |-> grid_prices[crossed[m]]]

optimize_status_after_buys(current_price) ==
    [level \in DOMAIN grid_status |->
        IF \E m \in 1..Len(optimize_buy_levels(current_price)) :
              optimize_buy_levels(current_price)[m] = level
        THEN "filled" ELSE grid_status[level]]

\* later calls, second loop: the filled levels crossed upward, highest first
optimize_sell_levels(current_price) ==
    LET descending == Reverse(grid_prices)
        crossed == SelectSeq([n \in 1..Len(descending) |-> n],
                       LAMBDA n : /\ on_grid_scale(last_price) < descending[n]
                                  /\ descending[n] <= on_grid_scale(current_price)
                                  /\ optimize_status_after_buys(current_price)[descending[n]]
                                       = "filled"
                                  /\ first_in(descending, n))
    IN  [m \in 1..Len(crossed) |-> descending[crossed[m]]]

\* strategy.get_signals(current_price, timestamp) on the grid of the combination
optimize_signals(current_price, timestamp) ==
    IF ~initialized
    THEN LET b == optimize_bootstrap_levels(current_price)
         IN  [n \in 1..Len(b) |-> optimize_signal("buy", current_price, b[n], timestamp)]
    ELSE LET b == optimize_buy_levels(current_price)
             s == optimize_sell_levels(current_price)
         IN  [n \in 1..Len(b) |-> optimize_signal("buy", current_price, b[n], timestamp)]
             \o [n \in 1..Len(s) |-> optimize_signal("sell", current_price, s[n], timestamp)]

\* self.grid_status after the call
optimize_status(current_price) ==
    IF ~initialized
    THEN [level \in DOMAIN grid_status |->
            IF level < on_grid_scale(current_price) THEN "filled" ELSE grid_status[level]]
    ELSE [level \in DOMAIN grid_status |->
            IF \E m \in 1..Len(optimize_sell_levels(current_price)) :
                  optimize_sell_levels(current_price)[m] = level
            THEN "empty" ELSE optimize_status_after_buys(current_price)[level]]

----------------------------------------------------------------------------
(* optimize_parameters (backtest_csv.py): the sweep                        *)

OptimizeInit ==
    /\ runner = "optimize_parameters"
    /\ strategy = "GridTradingStrategy"
    /\ df \in SeqsUpTo(Candles, MaxRows)
    /\ pc = "test"
    /\ i = 0
    /\ signals = <<>>
    /\ k = 1
    /\ capital = optimizer_capital * SCALE
    /\ position = 0
    /\ trades = <<>>
    /\ equity_curve = <<>>
    /\ grid_prices = <<>>
    /\ grid_status = [j \in 0..grid_num |-> "empty"]
    /\ last_price = None
    /\ initialized = FALSE
    /\ entry_price = None
    /\ in_position = FALSE
    /\ metrics = NoMetrics
    /\ run_no = 1
    /\ previous = NoResult
    /\ current_test = 0
    /\ results = <<>>
    /\ results_df = <<>>
    /\ signal_log = <<>>
    /\ safety = NoBot
    /\ exchange = NoBot
    /\ bot = NoBot
    /\ slack = {}

\* the position in the nested loops of the t-th combination tested: the
\* order of optimize_parameters, and the opposite order for a sweep that
\* is run to compare
enumeration(t) == IF run_no = 1 THEN t ELSE total_tests + 1 - t

\* the next test going on with the engine of the test before it
optimize_next_test_same_engine ==
    /\ runner = "optimize_parameters"
    /\ pc = "test"
    /\ current_test < total_tests
    /\ current_test' = current_test + 1
    /\ equity_curve' = <<>>
    /\ LET levels == optimize_grid_prices(Combination(enumeration(current_test + 1)))
       IN  /\ grid_prices' = levels
           /\ grid_status' = [level \in {levels[n] : n \in 1..Len(levels)} |-> "empty"]
    /\ last_price' = None
    /\ initialized' = FALSE
    /\ i' = 0
    /\ signals' = <<>>
    /\ k' = 1
    /\ pc' = "loop"
    /\ UNCHANGED <<runner, strategy, df, metrics, entry_price, in_position,
                   capital, position, trades>>
    /\ UNCHANGED <<run_no, previous, results, results_df>>
    /\ signal_log' = <<>>
    /\ UNCHANGED botVars

\* for grid_num in grid_nums: for range_ratio in range_ratios:
\* engine = BacktestEngine(initial_capital); strategy = GridTradingStrategy(...)
optimize_next_test ==
    /\ runner = "optimize_parameters"
    /\ pc = "test"
    /\ current_test < total_tests
    /\ current_test' = current_test + 1
    /\ capital' = optimizer_capital * SCALE
    /\ position' = 0
    /\ trades' = <<>>
    /\ equity_curve' = <<>>
    /\ LET levels == optimize_grid_prices(Combination(enumeration(current_test + 1)))
       IN  /\ grid_prices' = levels
           /\ grid_status' = [level \in {levels[n] : n \in 1..Len(levels)} |-> "empty"]
    /\ last_price' = None
    /\ initialized' = FALSE
    /\ i' = 0
    /\ signals' = <<>>
    /\ k' = 1
    /\ pc' = "loop"
    /\ UNCHANGED <<runner, strategy, df, metrics, entry_price, in_position>>
    /\ UNCHANGED <<run_no, previous, results, results_df>>
    /\ signal_log' = <<>>
    /\ UNCHANGED botVars

\* for timestamp, row in df.iterrows(): signals = strategy.get_signals(...)
optimize_get_signals ==
    /\ runner = "optimize_parameters"
    /\ pc = "loop"
    /\ i < Len(df)
    /\ i' = i + 1
    /\ signals' = optimize_signals(df[i + 1].close, i + 1)
    /\ grid_status' = optimize_status(df[i + 1].close)
    /\ initialized' = TRUE
    /\ last_price' = df[i + 1].close
    /\ k' = 1
    /\ pc' = "apply"
    /\ UNCHANGED <<runner, strategy, df, metrics, grid_prices, entry_price, in_position>>
    /\ signal_log' = Append(signal_log, signals')
    /\ UNCHANGED botVars
    /\ UNCHANGED <<run_no, previous>>
    /\ UNCHANGED optimizerVars
    /\ UNCHANGED ledgerVars

\* for signal in signals: engine.execute_trade(...)
optimize_execute_trade ==
    /\ runner = "optimize_parameters"
    /\ pc = "apply"
    /\ k <= Len(signals)
    /\ LET after == BacktestEngine_execute_trade(NextSignal.price, NextSignal.amount,
                                                 NextSignal.side, i)
       IN  /\ capital' = after.capital
           /\ position' = after.position
           /\ trades' = after.trades
    /\ k' = k + 1
    /\ UNCHANGED <<runner, strategy, df, pc, i, signals, metrics, equity_curve>>
    /\ UNCHANGED callVars
    /\ UNCHANGED strategyVars

\* engine.record_equity(current_price, timestamp)
optimize_record_equity ==
    /\ runner = "optimize_parameters"
    /\ pc = "apply"
    /\ k > Len(signals)
    /\ equity_curve' = record_equity(df[i].close, i)
    /\ pc' = "loop"
    /\ UNCHANGED <<runner, strategy, df, i, signals, k, metrics, capital, position, trades>>
    /\ UNCHANGED callVars
    /\ UNCHANGED strategyVars

\* a row whose final_equity is the capital of the engine, the position
\* left out
optimize_row_capital_only(combination) ==
    [grid_num     |-> combination.grid_num,
     range_ratio  |-> combination.range_ratio,
     lower_price  |-> grid_prices[1],
     upper_price  |-> Last(grid_prices),
     total_return |-> capital - (optimizer_capital * SCALE),
     max_drawdown |-> max_drawdown(equity_curve),
     trade_count  |-> Len(trades),
     final_equity |-> capital]

\* the dict appended to results; total_return is
\* (final_equity - initial_capital) / initial_capital * 100 in units of
\* 1/(100 * SCALE) percent, final_equity in units of 1/SCALE
optimize_row(combination) ==
    [grid_num     |-> combination.grid_num,
     range_ratio  |-> combination.range_ratio,
     lower_price  |-> grid_prices[1],
     upper_price  |-> Last(grid_prices),
     total_return |-> Last(equity_curve).equity - (optimizer_capital * SCALE),
     max_drawdown |-> max_drawdown(equity_curve),
     trade_count  |-> Len(trades),
     final_equity |-> Last(equity_curve).equity]

\* the rows of df are used up: if engine.equity_curve: results.append({...})
optimize_append_result ==
    /\ runner = "optimize_parameters"
    /\ pc = "loop"
    /\ i = Len(df)
    /\ results' = IF equity_curve # <<>>
                  THEN Append(results, optimize_row(Combination(enumeration(current_test))))
                  ELSE results
    /\ pc' = "test"
    /\ UNCHANGED <<runner, strategy, df, i, signals, k, metrics>>
    /\ UNCHANGED <<run_no, previous, current_test, results_df>>
    /\ UNCHANGED ledgerVars
    /\ UNCHANGED strategyVars
    /\ UNCHANGED signal_log
    /\ UNCHANGED botVars

\* row put into a table sorted by total_return, after the rows that
\* are not below it
insert_descending(sorted, row) ==
    LET n == Cardinality({m \in 1..Len(sorted) : sorted[m].total_return >= row.total_return})
    IN  SubSeq(sorted, 1, n) \o <<row>> \o SubSeq(sorted, n + 1, Len(sorted))

\* row put into a table sorted the other way, total_return rising
insert_ascending(sorted, row) ==
    LET n == Cardinality({m \in 1..Len(sorted) : sorted[m].total_return <= row.total_return})
    IN  SubSeq(sorted, 1, n) \o <<row>> \o SubSeq(sorted, n + 1, Len(sorted))

RECURSIVE sorted_ascending(_)
sorted_ascending(rows) ==
    IF rows = <<>> THEN <<>>
    ELSE insert_ascending(sorted_ascending(SubSeq(rows, 1, Len(rows) - 1)), Last(rows))

RECURSIVE sorted_descending(_)
\* the rows by total_return, highest first, equal ones in the order of rows
sorted_descending(rows) ==
    IF rows = <<>> THEN <<>>
    ELSE insert_descending(sorted_descending(SubSeq(rows, 1, Len(rows) - 1)), Last(rows))

\* table with rows n and n + 1 exchanged
exchanged(table, n) ==
    [m \in 1..Len(table) |->
        IF m = n THEN table[n + 1] ELSE IF m = n + 1 THEN table[n] ELSE table[m]]

\* results_df.sort_values('total_return', ascending=False): the sort is
\* the default one, quicksort, which does not keep equal rows in their
\* order; of the orders it may leave them in, the one of results and
\* those with two neighbouring equal rows exchanged
sort_values(rows) ==
    {sorted_descending(rows)}
    \cup {exchanged(sorted_descending(rows), n) : n \in
             {m \in 1..(Len(rows) - 1) :
                 sorted_descending(rows)[m].total_return
                   = sorted_descending(rows)[m + 1].total_return}}

\* results_df = pd.DataFrame(results).sort_values(...), which raises
\* KeyError on the frame of an empty list; return results_df
optimize_sort_values ==
    /\ runner = "optimize_parameters"
    /\ pc = "test"
    /\ current_test = total_tests
    /\ IF results = <<>>
       THEN /\ pc' = "KeyError"
            /\ results_df' = results_df
       ELSE /\ pc' = "returned"
            /\ results_df' \in sort_values(results)
    /\ UNCHANGED <<runner, strategy, df, i, signals, k, metrics>>
    /\ UNCHANGED <<run_no, previous, current_test, results>>
    /\ UNCHANGED ledgerVars
    /\ UNCHANGED strategyVars
    /\ UNCHANGED signal_log
    /\ UNCHANGED botVars

OptimizeNext ==
    \/ optimize_next_test
    \/ optimize_get_signals
    \/ optimize_execute_trade
    \/ optimize_record_equity
    \/ optimize_append_result
    \/ optimize_sort_values

OptimizeSpec == OptimizeInit /\ [][OptimizeNext]_vars

\* the sweep made once more on the same df, the combinations taken in the
\* opposite order
optimize_again ==
    /\ runner = "optimize_parameters"
    /\ pc = "returned"
    /\ run_no = 1
    /\ run_no' = 2
    /\ previous' = [returned |-> TRUE, results |-> results]
    /\ current_test' = 0
    /\ results' = <<>>
    /\ results_df' = <<>>
    /\ pc' = "test"
    /\ UNCHANGED <<runner, strategy, df, i, signals, k, metrics>>
    /\ UNCHANGED ledgerVars
    /\ UNCHANGED strategyVars
    /\ signal_log' = <<>>
    /\ UNCHANGED botVars

OptimizeTwiceNext ==
    \/ OptimizeNext
    \/ optimize_again

OptimizeTwiceSpec == OptimizeInit /\ [][OptimizeTwiceNext]_vars

----------------------------------------------------------------------------
(* run_backtest with the strategy_params of one combination, then the sweep *)

\* the passes of the nested loops whose combination run_backtest is called
\* with: the first, and one that follows other combinations
ComparedTests == {1, 10}

\* run_backtest(df, strategy_params, initial_capital) is about to start,
\* strategy_params being those optimize_parameters computes for one of its
\* combinations on this df, and initial_capital its default
ParamsInit ==
    /\ runner = "run_backtest"
    /\ strategy = "GridTradingStrategy"
    /\ df \in SeqsUpTo(Candles, MaxRows)
    /\ \E test \in ComparedTests :
          /\ previous = [returned |-> FALSE, test |-> test]
          /\ grid_prices = optimize_grid_prices(Combination(test))
          /\ grid_status = [level \in {optimize_grid_prices(Combination(test))[n] :
                                          n \in 1..(Combination(test).grid_num + 1)} |-> "empty"]
    /\ pc = "loop"
    /\ i = 0
    /\ signals = <<>>
    /\ k = 1
    /\ capital = optimizer_capital * SCALE
    /\ position = 0
    /\ trades = <<>>
    /\ equity_curve = <<>>
    /\ last_price = None
    /\ initialized = FALSE
    /\ entry_price = None
    /\ in_position = FALSE
    /\ metrics = NoMetrics
    /\ run_no = 1
    /\ current_test = 0
    /\ results = <<>>
    /\ results_df = <<>>
    /\ signal_log = <<>>
    /\ safety = NoBot
    /\ exchange = NoBot
    /\ bot = NoBot
    /\ slack = {}

\* for timestamp, row in df.iterrows(): current_price = row['close'];
\* signals = strategy.get_signals(current_price, timestamp)
params_get_signals ==
    /\ runner = "run_backtest"
    /\ pc = "loop"
    /\ i < Len(df)
    /\ i' = i + 1
    /\ signals' = optimize_signals(df[i + 1].close, i + 1)
    /\ grid_status' = optimize_status(df[i + 1].close)
    /\ initialized' = TRUE
    /\ last_price' = df[i + 1].close
    /\ k' = 1
    /\ pc' = "apply"
    /\ UNCHANGED <<runner, strategy, df, metrics, grid_prices, entry_price, in_position>>
    /\ signal_log' = Append(signal_log, signals')
    /\ UNCHANGED botVars
    /\ UNCHANGED <<run_no, previous>>
    /\ UNCHANGED optimizerVars
    /\ UNCHANGED ledgerVars

\* engine.record_equity(current_price, timestamp)
params_record_equity ==
    /\ runner = "run_backtest"
    /\ pc = "apply"
    /\ k > Len(signals)
    /\ equity_curve' = record_equity(df[i].close, i)
    /\ pc' = "loop"
    /\ UNCHANGED <<runner, strategy, df, i, signals, k, metrics, capital, position, trades>>
    /\ UNCHANGED callVars
    /\ UNCHANGED strategyVars

\* PerformanceAnalyzer.calculate_metrics, the entries that have a
\* counterpart in a row of optimize_parameters: final equity, net profit
\* (total return times the capital), maximum drawdown and trade count
calculate_metrics_of_row(curve, trade_log, initial) ==
    IF curve = <<>>
    THEN [computed |-> TRUE, empty |-> TRUE]
    ELSE [computed     |-> TRUE,
          empty        |-> FALSE,
          final_equity |-> Last(curve).equity,
          net_profit   |-> Last(curve).equity - initial,
          max_drawdown |-> max_drawdown(curve),
          trade_count  |-> Len(trade_log)]

\* metrics = PerformanceAnalyzer.calculate_metrics(engine.equity_curve,
\* engine.trades, initial_capital)
params_calculate_metrics ==
    /\ runner = "run_backtest"
    /\ pc = "loop"
    /\ i = Len(df)
    /\ metrics' = calculate_metrics_of_row(equity_curve, trades, optimizer_capital * SCALE)
    /\ pc' = "plot"
    /\ UNCHANGED <<runner, strategy, df, i, signals, k>>
    /\ UNCHANGED callVars
    /\ UNCHANGED ledgerVars
    /\ UNCHANGED strategyVars

\* what run_backtest returned: {'metrics': ..., 'equity_curve': ...,
\* 'trades': ..., 'strategy_params': ...}
params_result ==
    [returned     |-> TRUE,
     test         |-> previous.test,
     metrics      |-> metrics,
     equity_curve |-> equity_curve,
     trades       |-> trades,
     lower_price  |-> grid_prices[1],
     upper_price  |-> Last(grid_prices)]

\* run_backtest has returned: optimize_parameters(df) is called on the same df
params_optimize ==
    /\ runner = "run_backtest"
    /\ pc = "returned"
    /\ runner' = "optimize_parameters"
    /\ previous' = params_result
    /\ pc' = "test"
    /\ i' = 0
    /\ signals' = <<>>
    /\ k' = 1
    /\ capital' = optimizer_capital * SCALE
    /\ position' = 0
    /\ trades' = <<>>
    /\ equity_curve' = <<>>
    /\ grid_prices' = <<>>
    /\ grid_status' = [j \in 0..grid_num |-> "empty"]
    /\ last_price' = None
    /\ initialized' = FALSE
    /\ metrics' = NoMetrics
    /\ signal_log' = <<>>
    /\ UNCHANGED <<strategy, df, entry_price, in_position, run_no>>
    /\ UNCHANGED optimizerVars
    /\ UNCHANGED botVars

ParamsNext ==
    \/ params_get_signals
    \/ run_backtest_execute_trade
    \/ params_record_equity
    \/ params_calculate_metrics
    \/ run_backtest_plot_results
    \/ params_optimize
    \/ OptimizeNext

ParamsSpec == ParamsInit /\ [][ParamsNext]_vars

----------------------------------------------------------------------------
(* A replay called again on a df that shares its first rows                *)

\* the frames that have the first n rows of df and at most one more row, which
\* is not row n + 1 of df
shared_rows(n, prices) ==
    {SubSeq(df, 1, n)} \cup {Append(SubSeq(df, 1, n), price) : price \in prices \ {df[n + 1]}}

\* what the call that ended returned and logged for the first n rows
first_rows(n) ==
    [returned     |-> TRUE,
     agree        |-> n,
     signal_log   |-> SubSeq(signal_log, 1, n),
     trades       |-> SelectSeq(trades, LAMBDA trade : trade.timestamp <= n),
     equity_curve |-> SubSeq(equity_curve, 1, n)]

\* run_backtest called again, with the same strategy_params and
\* initial_capital, on a df whose first rows are those of the first call
run_backtest_other_df ==
    /\ runner = "run_backtest"
    /\ pc \in {"returned", "KeyError"}
    /\ run_no = 1
    /\ df # <<>>
    /\ \E n \in 0..(Len(df) - 1) :
          /\ df' \in shared_rows(n, Prices)
          /\ previous' = first_rows(n)
    /\ run_no' = 2
    /\ signal_log' = <<>>
    /\ UNCHANGED botVars
    /\ pc' = "loop"
    /\ i' = 0
    /\ signals' = <<>>
    /\ k' = 1
    /\ capital' = initial_capital
    /\ position' = 0
    /\ trades' = <<>>
    /\ equity_curve' = <<>>
    /\ grid_status' = [j \in 0..grid_num |-> "empty"]
    /\ last_price' = None
    /\ initialized' = FALSE
    /\ metrics' = NoMetrics
    /\ UNCHANGED <<runner, strategy, grid_prices, entry_price, in_position>>
    /\ UNCHANGED optimizerVars

\* run_strategy_comparison called again on a df whose first rows are those of
\* the first call: it builds new strategies
run_strategy_comparison_other_df ==
    /\ runner = "run_strategy_comparison"
    /\ pc \in {"returned", "KeyError"}
    /\ run_no = 1
    /\ df # <<>>
    /\ \E n \in 0..(Len(df) - 1) :
          /\ df' \in shared_rows(n, ComparePrices)
          /\ previous' = first_rows(n)
    /\ run_no' = 2
    /\ signal_log' = <<>>
    /\ UNCHANGED botVars
    /\ pc' = "loop"
    /\ i' = 0
    /\ signals' = <<>>
    /\ k' = 1
    /\ capital' = comparison_capital * SCALE
    /\ position' = 0
    /\ trades' = <<>>
    /\ equity_curve' = <<>>
    /\ grid_prices' = <<>>
    /\ grid_status' = [j \in 0..grid_num |-> "empty"]
    /\ last_price' = None
    /\ initialized' = FALSE
    /\ entry_price' = None
    /\ in_position' = FALSE
    /\ metrics' = NoMetrics
    /\ UNCHANGED <<runner, strategy>>
    /\ UNCHANGED optimizerVars

OtherDfNext ==
    \/ Next
    \/ CompareNext
    \/ run_backtest_other_df
    \/ run_strategy_comparison_other_df

OtherDfSpec == (Init \/ CompareInit) /\ [][OtherDfNext]_vars

----------------------------------------------------------------------------
(* SlackNotifier and SafetyMonitor (momentum_bot_safe.py)                  *)

\* the thresholds of SafetyMonitor.__init__, in percent, and its error limit
volatility_alert_threshold == 5
volatility_stop_threshold  == 10
daily_loss_limit           == 5
api_error_threshold        == 3

\* SafetyMonitor.__init__ at the date the bot is constructed on, with the
\* history of the API calls
SafetyMonitor_init(today) ==
    [constructed           |-> TRUE,
     price_history         |-> <<>>,
     daily_start_balance   |-> None,
     last_reset_date       |-> today,
     api_error_count       |-> 0,
     last_balance_check    |-> None,
     emergency_stop        |-> FALSE,
     daily_trading_stopped |-> FALSE,
     failures_in_a_row     |-> 0,
     threshold_reached     |-> FALSE]

\* the history of the API calls, kept with the monitor and read by none of
\* its methods: how many calls failed since the last one that succeeded, and
\* whether api_error_threshold calls ever failed in a row
api_call(monitor, ok) ==
    [monitor EXCEPT
        !.failures_in_a_row = IF ok THEN 0 ELSE @ + 1,
        !.threshold_reached = @ \/ (~ok /\ monitor.failures_in_a_row + 1 >= api_error_threshold)]

\* deque(maxlen=...).append
deque_append(queue, x) ==
    IF Len(queue) = price_history_maxlen THEN Append(Tail(queue), x) ELSE Append(queue, x)

\* abs(change) >= percent / 100 for change = (new - old) / old
moved_by(old, new, percent) ==
    (IF new >= old THEN new - old ELSE old - new) * 100 >= percent * old

\* SafetyMonitor.check_volatility: the monitor after the call, the pair
\* returned and the notifications sent
check_volatility(monitor, current_price) ==
    LET history == deque_append(monitor.price_history, current_price)
        appended == [monitor EXCEPT !.price_history = history]
    IN  IF Len(history) < 2
        THEN [safety |-> appended, alert |-> FALSE, stop |-> FALSE, sent |-> {}]
        ELSE IF /\ Len(history) >= price_history_maxlen
                /\ moved_by(history[1], current_price, volatility_stop_threshold)
        THEN [safety |-> [appended EXCEPT !.emergency_stop = TRUE],
              alert |-> TRUE, stop |-> TRUE,
              sent |-> {"volatility_alert", "emergency_stop"}]
        ELSE IF moved_by(history[Len(history) - 1], current_price, volatility_alert_threshold)
        THEN [safety |-> appended, alert |-> TRUE, stop |-> FALSE,
              sent |-> {"volatility_alert"}]
        ELSE [safety |-> appended, alert |-> FALSE, stop |-> FALSE, sent |-> {}]

\* check_daily_loss without the branch for a changed date
check_daily_loss_no_daily_reset(monitor, current_balance, today) ==
    IF monitor.daily_start_balance = None
    THEN [safety |-> [monitor EXCEPT !.daily_start_balance = current_balance],
          stop |-> FALSE, sent |-> {}]
    ELSE IF /\ monitor.daily_start_balance # 0
            /\ (current_balance - monitor.daily_start_balance) * 100
                 < -(daily_loss_limit * monitor.daily_start_balance)
    THEN [safety |-> [monitor EXCEPT !.daily_trading_stopped = TRUE],
          stop |-> TRUE,
          sent |-> IF monitor.daily_trading_stopped THEN {} ELSE {"daily_loss_limit"}]
    ELSE [safety |-> monitor, stop |-> FALSE, sent |-> {}]

\* SafetyMonitor.check_daily_loss: the monitor after the call, the value
\* returned and the notifications sent (a balance of 0 at the start of the
\* day makes loss_pct inf or nan, which compares False)
check_daily_loss(monitor, current_balance, today) ==
    IF today # monitor.last_reset_date
    THEN [safety |-> [monitor EXCEPT !.daily_start_balance = current_balance,
                                     !.last_reset_date = today,
                                     !.daily_trading_stopped = FALSE],
          stop |-> FALSE, sent |-> {}]
    ELSE IF monitor.daily_start_balance = None
    THEN [safety |-> [monitor EXCEPT !.daily_start_balance = current_balance],
          stop |-> FALSE, sent |-> {}]
    ELSE IF /\ monitor.daily_start_balance # 0
            /\ (current_balance - monitor.daily_start_balance) * 100
                 < -(daily_loss_limit * monitor.daily_start_balance)
    THEN [safety |-> [monitor EXCEPT !.daily_trading_stopped = TRUE],
          stop |-> TRUE,
          sent |-> IF monitor.daily_trading_stopped THEN {} ELSE {"daily_loss_limit"}]
    ELSE [safety |-> monitor, stop |-> FALSE, sent |-> {}]

\* record_api_error that stops when the count is above the threshold
record_api_error_above_threshold(monitor) ==
    [monitor EXCEPT !.api_error_count = @ + 1,
                    !.emergency_stop = @ \/ monitor.api_error_count + 1 > api_error_threshold]

\* SafetyMonitor.record_api_error: the monitor after the call
record_api_error(monitor) ==
    [monitor EXCEPT !.api_error_count = @ + 1,
                    !.emergency_stop = @ \/ monitor.api_error_count + 1 >= api_error_threshold]

\* the notification record_api_error sends
record_api_error_sent(monitor) ==
    IF monitor.api_error_count + 1 >= api_error_threshold THEN {"emergency_stop"} ELSE {}

\* reset_api_error that also takes the emergency stop back
reset_api_error_clears_stop(monitor) ==
    [monitor EXCEPT !.api_error_count = 0, !.emergency_stop = FALSE]

\* SafetyMonitor.reset_api_error
reset_api_error(monitor) == [monitor EXCEPT !.api_error_count = 0]

\* SafetyMonitor.check_balance_anomaly: the monitor after the call and the
\* notification sent (the value returned is not used by run)
check_balance_anomaly(monitor, current_balance) ==
    IF monitor.last_balance_check = None
    THEN [safety |-> [monitor EXCEPT !.last_balance_check = current_balance], sent |-> {}]
    ELSE IF /\ monitor.last_balance_check # 0
            /\ (current_balance - monitor.last_balance_check) * 2 < -monitor.last_balance_check
    THEN [safety |-> monitor, sent |-> {"error"}]
    ELSE [safety |-> [monitor EXCEPT !.last_balance_check = current_balance], sent |-> {}]

\* SafetyMonitor.should_stop_trading
should_stop_trading(monitor) == monitor.emergency_stop \/ monitor.daily_trading_stopped

----------------------------------------------------------------------------
(* MomentumBotSafe (momentum_bot_safe.py)                                  *)

\* config['stop_loss_pct']
bot_stop_loss_pct == 10

\* the price of 0.0001 BTC in JPY that the last candle may close at
BotPrices == {94, 100, 112}

\* what the comparison of calculate_momentum(prices) with +-threshold gives
MomentumSigns == {"up", "flat", "down"}

\* the free JPY and the free BTC (in units of 0.0001) of the account when
\* the bot starts
BotAccounts == {[JPY |-> 10000, BTC |-> 0]}

\* the smallest balance execute_buy orders with, and the smallest amount
\* either order is placed for (0.0001 BTC)
min_jpy == 1000
min_btc == 1

\* the outcomes of a call of the exchange's API: a call fails only while
\* fewer than MaxApiErrors failures are counted
ApiOutcomes == IF safety.api_error_count < MaxApiErrors THEN {TRUE, FALSE} ELSE {TRUE}

\* the outcomes of placing an order: an order fills only while fewer than
\* BotMaxOrders orders were filled
OrderOutcomes ==
    {ok \in ApiOutcomes : ok => Len(trades) < BotMaxOrders}
      \cup (IF Len(trades) >= BotMaxOrders THEN {FALSE} ELSE {})

\* bot = MomentumBotSafe(config); bot.run() is about to start
BotInit ==
    /\ runner = "MomentumBotSafe.run"
    /\ strategy = "MomentumBotSafe"
    /\ pc = "load_markets"
    /\ \E account \in BotAccounts :
          exchange = [constructed |-> TRUE, today |-> 1,
                      JPY |-> account.JPY, BTC |-> account.BTC]
    /\ safety = SafetyMonitor_init(1)
    /\ bot = [constructed |-> TRUE, heartbeat_counter |-> 0, current_price |-> None,
              called |-> "", returned |-> FALSE]
    /\ slack = {}
    /\ in_position = FALSE
    /\ entry_price = None
    /\ trades = <<>>
    /\ df = <<>>
    /\ i = 0
    /\ signals = <<>>
    /\ k = 1
    /\ capital = 0
    /\ position = 0
    /\ equity_curve = <<>>
    /\ grid_prices = <<>>
    /\ grid_status = [j \in 0..grid_num |-> "empty"]
    /\ last_price = None
    /\ initialized = FALSE
    /\ metrics = NoMetrics
    /\ run_no = 1
    /\ previous = NoResult
    /\ current_test = 0
    /\ results = <<>>
    /\ results_df = <<>>
    /\ signal_log = <<>>

\* what a step of the bot leaves alone
BotUnused ==
    UNCHANGED <<runner, strategy, df, i, signals, k, capital, position, equity_curve,
                grid_prices, grid_status, last_price, initialized, metrics, run_no,
                previous, current_test, results, results_df, signal_log>>

\* MomentumBotSafe.get_balance on the monitor given: (jpy, btc), the monitor
\* after the call and the notifications sent
get_balance(monitor, ok) ==
    IF ok
    THEN [jpy |-> exchange.JPY, btc |-> exchange.BTC,
          safety |-> reset_api_error(api_call(monitor, TRUE)), sent |-> {}]
    ELSE [jpy |-> 0, btc |-> 0,
          safety |-> record_api_error(api_call(monitor, FALSE)), sent |-> record_api_error_sent(monitor)]

\* MomentumBotSafe.check_stop_loss
bot_check_stop_loss(current_price) ==
    /\ in_position
    /\ entry_price # None
    /\ (current_price - entry_price) * 100 < -(bot_stop_loss_pct * entry_price)

\* MomentumBotSafe.execute_buy called on the bot, with the monitor as the
\* calls before it in the iteration left it and the notifications they sent:
\* the balance is fetched, and the order placed if it is large enough; the
\* bot records which method ran and what it returned
execute_buy(self, monitor, sent, current_price, balance_ok, order_ok) ==
    LET balance    == get_balance(monitor, balance_ok)
        amount_btc == ((balance.jpy * 95) \div 100) \div current_price
    IN  IF balance.jpy < min_jpy \/ amount_btc < min_btc
        THEN /\ bot' = [self EXCEPT !.called = "execute_buy", !.returned = FALSE]
             /\ safety' = balance.safety
             /\ slack' = sent \cup balance.sent
             /\ UNCHANGED <<in_position, entry_price, exchange, trades>>
        ELSE IF ~order_ok
        THEN /\ bot' = [self EXCEPT !.called = "execute_buy", !.returned = FALSE]
             /\ safety' = record_api_error(api_call(balance.safety, FALSE))
             /\ slack' = sent \cup balance.sent \cup {"error"}
                           \cup record_api_error_sent(balance.safety)
             /\ UNCHANGED <<in_position, entry_price, exchange, trades>>
        ELSE /\ bot' = [self EXCEPT !.called = "execute_buy", !.returned = TRUE]
             /\ exchange' = [exchange EXCEPT !.JPY = @ - (amount_btc * current_price),
                                             !.BTC = @ + amount_btc]
             /\ trades' = Append(trades, [side |-> "buy", amount |-> amount_btc,
                                          price |-> current_price])
             /\ in_position' = TRUE
             /\ entry_price' = current_price
             /\ slack' = sent \cup balance.sent \cup {"buy"}
             /\ safety' = reset_api_error(api_call(balance.safety, TRUE))

\* MomentumBotSafe.execute_sell, called likewise: the whole free BTC is sold
execute_sell(self, monitor, sent, current_price, is_stop_loss, balance_ok, order_ok) ==
    LET balance == get_balance(monitor, balance_ok)
    IN  IF balance.btc < min_btc
        THEN /\ bot' = [self EXCEPT !.called = "execute_sell", !.returned = FALSE]
             /\ safety' = balance.safety
             /\ slack' = sent \cup balance.sent
             /\ UNCHANGED <<in_position, entry_price, exchange, trades>>
        ELSE IF ~order_ok
        THEN /\ bot' = [self EXCEPT !.called = "execute_sell", !.returned = FALSE]
             /\ safety' = record_api_error(api_call(balance.safety, FALSE))
             /\ slack' = sent \cup balance.sent \cup {"error"}
                           \cup record_api_error_sent(balance.safety)
             /\ UNCHANGED <<in_position, entry_price, exchange, trades>>
        ELSE /\ bot' = [self EXCEPT !.called = "execute_sell", !.returned = TRUE]
             /\ exchange' = [exchange EXCEPT !.JPY = @ + (balance.btc * current_price),
                                             !.BTC = 0]
             /\ trades' = Append(trades, [side |-> "sell", amount |-> balance.btc,
                                          price |-> current_price])
             /\ in_position' = FALSE
             /\ entry_price' = None
             /\ slack' = sent \cup balance.sent
                           \cup {IF is_stop_loss THEN "stop_loss" ELSE "sell"}
             /\ safety' = reset_api_error(api_call(balance.safety, TRUE))

\* run: self.exchange.load_markets(), the balance logged, send_startup()
run_load_markets ==
    /\ runner = "MomentumBotSafe.run"
    /\ pc = "load_markets"
    /\ \E connected \in BOOLEAN, balance_ok \in ApiOutcomes :
          IF connected
          THEN /\ safety' = get_balance(safety, balance_ok).safety
               /\ slack' = get_balance(safety, balance_ok).sent \cup {"startup"}
               /\ pc' = "sleep"
          ELSE /\ safety' = safety
               /\ slack' = {"error"}
               /\ pc' = "returned"
    /\ UNCHANGED <<exchange, bot, in_position, entry_price, trades>>
    /\ BotUnused

\* the top of the loop body: prices = self.get_price_history() fails, or
\* holds no candle, and the iteration ends; or it holds candles whose last
\* close is current_price, and check_volatility(current_price) either lets
\* the iteration go on or stops it, the position held being sold
run_get_price_history ==
    /\ runner = "MomentumBotSafe.run"
    /\ pc = "get_price_history"
    /\ \/ /\ FALSE \in ApiOutcomes
          /\ safety' = record_api_error(api_call(safety, FALSE))
          /\ slack' = record_api_error_sent(safety)
          /\ pc' = "sleep"
          /\ UNCHANGED <<bot, exchange, in_position, entry_price, trades>>
       \/ /\ safety' = reset_api_error(api_call(safety, TRUE))
          /\ slack' = {}
          /\ pc' = "sleep"
          /\ UNCHANGED <<bot, exchange, in_position, entry_price, trades>>
       \/ \E current_price \in BotPrices :
             LET checked == check_volatility(reset_api_error(api_call(safety, TRUE)), current_price)
                 priced  == [bot EXCEPT !.current_price = current_price]
             IN  IF ~checked.stop
                 THEN /\ bot' = priced
                      /\ safety' = checked.safety
                      /\ slack' = checked.sent
                      /\ pc' = "check_daily_loss"
                      /\ UNCHANGED <<exchange, in_position, entry_price, trades>>
                 ELSE /\ pc' = "sleep"
                      /\ IF in_position
                         THEN \E balance_ok \in ApiOutcomes, order_ok \in OrderOutcomes :
                                 execute_sell(priced, checked.safety, checked.sent,
                                              current_price, FALSE, balance_ok, order_ok)
                         ELSE /\ bot' = priced
                              /\ safety' = checked.safety
                              /\ slack' = checked.sent
                              /\ UNCHANGED <<exchange, in_position, entry_price, trades>>
    /\ BotUnused

\* jpy, btc = self.get_balance(); total_balance = jpy + (btc * current_price);
\* if self.safety.check_daily_loss(total_balance): continue;
\* self.safety.check_balance_anomaly(total_balance);
\* if self.safety.should_stop_trading(): continue
run_check_daily_loss ==
    /\ runner = "MomentumBotSafe.run"
    /\ pc = "check_daily_loss"
    /\ \E balance_ok \in ApiOutcomes :
          LET balance       == get_balance(safety, balance_ok)
              total_balance == balance.jpy + (balance.btc * bot.current_price)
              checked       == check_daily_loss(balance.safety, total_balance, exchange.today)
              anomaly       == check_balance_anomaly(checked.safety, total_balance)
          IN  IF checked.stop
              THEN /\ safety' = checked.safety
                   /\ slack' = slack \cup balance.sent \cup checked.sent
                   /\ pc' = "sleep"
              ELSE /\ safety' = anomaly.safety
                   /\ slack' = slack \cup balance.sent \cup checked.sent \cup anomaly.sent
                   /\ pc' = IF should_stop_trading(anomaly.safety)
                            THEN "sleep" ELSE "check_stop_loss"
    /\ UNCHANGED <<exchange, bot, in_position, entry_price, trades>>
    /\ BotUnused

\* print_status: the balance is fetched and the heartbeat counted
print_status(balance_ok) ==
    [safety  |-> get_balance(safety, balance_ok).safety,
     sent    |-> slack \cup get_balance(safety, balance_ok).sent
                   \cup (IF bot.heartbeat_counter + 1 >= heartbeat_interval
                         THEN {"heartbeat"} ELSE {}),
     counter |-> IF bot.heartbeat_counter + 1 >= heartbeat_interval
                 THEN 0 ELSE bot.heartbeat_counter + 1]

\* the rest of the loop body: if self.check_stop_loss(current_price):
\* self.execute_sell(current_price, is_stop_loss=True); continue; else
\* momentum = self.calculate_momentum(prices), print_status, and execute_buy
\* or execute_sell on the sign of the momentum
run_check_stop_loss ==
    /\ runner = "MomentumBotSafe.run"
    /\ pc = "check_stop_loss"
    /\ IF bot_check_stop_loss(bot.current_price)
       THEN \E balance_ok \in ApiOutcomes, order_ok \in OrderOutcomes :
               execute_sell(bot, safety, slack, bot.current_price, TRUE, balance_ok, order_ok)
       ELSE \E momentum \in MomentumSigns, status_ok \in ApiOutcomes :
               LET status  == print_status(status_ok)
                   counted == [bot EXCEPT !.heartbeat_counter = status.counter]
               IN  IF momentum = "up" /\ ~in_position
                   THEN \E balance_ok \in ApiOutcomes, order_ok \in OrderOutcomes :
                           execute_buy(counted, status.safety, status.sent,
                                       bot.current_price, balance_ok, order_ok)
                   ELSE IF momentum = "down" /\ in_position
                   THEN \E balance_ok \in ApiOutcomes, order_ok \in OrderOutcomes :
                           execute_sell(counted, status.safety, status.sent,
                                        bot.current_price, FALSE, balance_ok, order_ok)
                   ELSE /\ bot' = counted
                        /\ safety' = status.safety
                        /\ slack' = status.sent
                        /\ UNCHANGED <<exchange, in_position, entry_price, trades>>
    /\ pc' = "sleep"
    /\ BotUnused

\* time.sleep(...): the notifications of the iteration are out, its local
\* variables are dead, and the date may have changed when the bot wakes up
run_sleep ==
    /\ runner = "MomentumBotSafe.run"
    /\ pc = "sleep"
    /\ \E today \in {exchange.today, Min(exchange.today + 1, MaxDays)} :
          exchange' = [exchange EXCEPT !.today = today]
    /\ bot' = [bot EXCEPT !.current_price = None, !.called = "", !.returned = FALSE]
    /\ slack' = {}
    /\ pc' = "get_price_history"
    /\ UNCHANGED <<safety, in_position, entry_price, trades>>
    /\ BotUnused

\* except KeyboardInterrupt, raised while the bot sleeps:
\* self.slack.send("Bot停止"); break
run_keyboard_interrupt ==
    /\ runner = "MomentumBotSafe.run"
    /\ pc = "sleep"
    /\ pc' = "returned"
    /\ slack' = {"stopped"}
    /\ UNCHANGED <<safety, exchange, bot, in_position, entry_price, trades>>
    /\ BotUnused

BotNext ==
    \/ run_load_markets
    \/ run_get_price_history
    \/ run_check_daily_loss
    \/ run_check_stop_loss
    \/ run_sleep
    \/ run_keyboard_interrupt

BotSpec == BotInit /\ [][BotNext]_vars

----------------------------------------------------------------------------
(* MomentumBot (momentum_bot_production.py) and MomentumBotJPY             *)
(* (momentum_bot_btcjpy.py)                                                *)

\* the free quote currency (USDT, JPY) of the account when the bot starts
LiveAccounts == {10000, 1000, 5}

\* the price of 0.0001 BTC that the last candle may close at
LivePrices == {94, 112, 1000}

\* MomentumBot.execute_buy: the smallest balance it orders with, and
\* market['limits']['amount']['min'] in units of 0.0001 BTC
min_usdt == 10
min_amount == 1

\* the outcomes of placing an order: an order fills only while fewer than
\* LiveMaxOrders orders were filled
LiveOrderOutcomes == IF Len(trades) < LiveMaxOrders THEN {TRUE, FALSE} ELSE {FALSE}

\* bot = MomentumBot(config) or bot = MomentumBotJPY(config); bot.run() is
\* about to start
LiveInit ==
    /\ \/ /\ runner = "MomentumBot.run"
          /\ strategy = "MomentumBot"
          /\ pc = "get_price_history"
          /\ \E account \in LiveAccounts :
                exchange = [constructed |-> TRUE, USDT |-> account, BTC |-> 0]
          /\ bot = [constructed |-> TRUE, position_size |-> 0, current_price |-> None,
                    called |-> "", returned |-> FALSE]
       \/ /\ runner = "MomentumBotJPY.run"
          /\ strategy = "MomentumBotJPY"
          /\ pc = "load_markets"
          /\ \E account \in LiveAccounts :
                exchange = [constructed |-> TRUE, JPY |-> account, BTC |-> 0]
          /\ bot = [constructed |-> TRUE, current_price |-> None,
                    called |-> "", returned |-> FALSE]
    /\ safety = NoBot
    /\ slack = {}
    /\ in_position = FALSE
    /\ entry_price = None
    /\ trades = <<>>
    /\ df = <<>>
    /\ i = 0
    /\ signals = <<>>
    /\ k = 1
    /\ capital = 0
    /\ position = 0
    /\ equity_curve = <<>>
    /\ grid_prices = <<>>
    /\ grid_status = [j \in 0..grid_num |-> "empty"]
    /\ last_price = None
    /\ initialized = FALSE
    /\ metrics = NoMetrics
    /\ run_no = 1
    /\ previous = NoResult
    /\ current_test = 0
    /\ results = <<>>
    /\ results_df = <<>>
    /\ signal_log = <<>>

\* MomentumBot.execute_buy: fetch_balance, the two checks and the order are
\* inside the try; the bookkeeping follows the order, and _save_trades
\* handles its own exceptions
MomentumBot_execute_buy(self, current_price, balance_ok, order_ok) ==
    LET usdt_balance == exchange.USDT
        amount_usdt  == (usdt_balance * 95) \div 100
        amount_btc   == amount_usdt \div current_price
    IN  IF \/ ~balance_ok
           \/ usdt_balance < min_usdt
           \/ amount_btc < min_amount
           \/ ~order_ok
        THEN /\ bot' = [self EXCEPT !.called = "execute_buy", !.returned = FALSE]
             /\ UNCHANGED <<in_position, entry_price, exchange, trades>>
        ELSE /\ exchange' = [exchange EXCEPT !.USDT = @ - (amount_btc * current_price),
                                             !.BTC = @ + amount_btc]
             /\ in_position' = TRUE
             /\ entry_price' = current_price
             /\ trades' = Append(trades, [side |-> "buy", amount |-> amount_btc,
                                          price |-> current_price])
             /\ bot' = [self EXCEPT !.position_size = amount_btc,
                                    !.called = "execute_buy", !.returned = TRUE]

\* MomentumBot.execute_sell with the position cleared before the order is
\* placed: an order that raises leaves the bot without its position
MomentumBot_execute_sell_clears_first(self, current_price, balance_ok, order_ok) ==
    LET btc_balance == exchange.BTC
    IN  IF ~balance_ok \/ btc_balance = 0
        THEN /\ bot' = [self EXCEPT !.called = "execute_sell", !.returned = FALSE]
             /\ UNCHANGED <<in_position, entry_price, exchange, trades>>
        ELSE IF ~order_ok
        THEN /\ bot' = [self EXCEPT !.position_size = 0,
                                    !.called = "execute_sell", !.returned = FALSE]
             /\ in_position' = FALSE
             /\ entry_price' = None
             /\ UNCHANGED <<exchange, trades>>
        ELSE /\ exchange' = [exchange EXCEPT !.USDT = @ + (btc_balance * current_price),
                                             !.BTC = 0]
             /\ trades' = Append(trades, [side |-> "sell", amount |-> btc_balance,
                                          price |-> current_price])
             /\ in_position' = FALSE
             /\ entry_price' = None
             /\ bot' = [self EXCEPT !.position_size = 0,
                                    !.called = "execute_sell", !.returned = TRUE]

\* MomentumBot.execute_sell: the whole free BTC is sold; the trade is
\* appended and saved, then the position cleared
MomentumBot_execute_sell(self, current_price, balance_ok, order_ok) ==
    LET btc_balance == exchange.BTC
    IN  IF ~balance_ok \/ btc_balance = 0 \/ ~order_ok
        THEN /\ bot' = [self EXCEPT !.called = "execute_sell", !.returned = FALSE]
             /\ UNCHANGED <<in_position, entry_price, exchange, trades>>
        ELSE /\ exchange' = [exchange EXCEPT !.USDT = @ + (btc_balance * current_price),
                                             !.BTC = 0]
             /\ trades' = Append(trades, [side |-> "sell", amount |-> btc_balance,
                                          price |-> current_price])
             /\ in_position' = FALSE
             /\ entry_price' = None
             /\ bot' = [self EXCEPT !.position_size = 0,
                                    !.called = "execute_sell", !.returned = TRUE]

\* one pass of the loop of MomentumBot.run up to its time.sleep:
\* get_price_history raises and except Exception ends the pass; or
\* check_stop_loss sells; or the sign of the momentum buys, sells or does
\* neither (print_status changes nothing)
MomentumBot_run ==
    /\ runner = "MomentumBot.run"
    /\ pc = "get_price_history"
    /\ \/ UNCHANGED <<bot, in_position, entry_price, exchange, trades>>
       \/ \E current_price \in LivePrices, balance_ok \in BOOLEAN,
             order_ok \in LiveOrderOutcomes :
             LET priced == [bot EXCEPT !.current_price = current_price]
             IN  IF bot_check_stop_loss(current_price)
                 THEN MomentumBot_execute_sell(priced, current_price, balance_ok, order_ok)
                 ELSE \E momentum \in MomentumSigns :
                         IF momentum = "up" /\ ~in_position
                         THEN MomentumBot_execute_buy(priced, current_price,
                                                      balance_ok, order_ok)
                         ELSE IF momentum = "down" /\ in_position
                         THEN MomentumBot_execute_sell(priced, current_price,
                                                       balance_ok, order_ok)
                         ELSE /\ bot' = priced
                              /\ UNCHANGED <<in_position, entry_price, exchange, trades>>
    /\ pc' = "sleep"
    /\ UNCHANGED <<safety, slack>>
    /\ BotUnused

\* MomentumBotJPY.get_balance: (jpy, btc), or (0, 0) when fetch_balance raises
MomentumBotJPY_get_balance(ok) ==
    IF ok THEN [jpy |-> exchange.JPY, btc |-> exchange.BTC] ELSE [jpy |-> 0, btc |-> 0]

\* MomentumBotJPY.execute_buy
MomentumBotJPY_execute_buy(self, current_price, balance_ok, order_ok) ==
    LET balance    == MomentumBotJPY_get_balance(balance_ok)
        amount_btc == ((balance.jpy * 95) \div 100) \div current_price
    IN  IF balance.jpy < min_jpy \/ amount_btc < min_btc \/ ~order_ok
        THEN /\ bot' = [self EXCEPT !.called = "execute_buy", !.returned = FALSE]
             /\ UNCHANGED <<in_position, entry_price, exchange, trades>>
        ELSE /\ exchange' = [exchange EXCEPT !.JPY = @ - (amount_btc * current_price),
                                             !.BTC = @ + amount_btc]
             /\ trades' = Append(trades, [side |-> "buy", amount |-> amount_btc,
                                          price |-> current_price])
             /\ in_position' = TRUE
             /\ entry_price' = current_price
             /\ bot' = [self EXCEPT !.called = "execute_buy", !.returned = TRUE]

\* MomentumBotJPY.execute_sell
MomentumBotJPY_execute_sell(self, current_price, balance_ok, order_ok) ==
    LET balance == MomentumBotJPY_get_balance(balance_ok)
    IN  IF balance.btc < min_btc \/ ~order_ok
        THEN /\ bot' = [self EXCEPT !.called = "execute_sell", !.returned = FALSE]
             /\ UNCHANGED <<in_position, entry_price, exchange, trades>>
        ELSE /\ exchange' = [exchange EXCEPT !.JPY = @ + (balance.btc * current_price),
                                             !.BTC = 0]
             /\ trades' = Append(trades, [side |-> "sell", amount |-> balance.btc,
                                          price |-> current_price])
             /\ in_position' = FALSE
             /\ entry_price' = None
             /\ bot' = [self EXCEPT !.called = "execute_sell", !.returned = TRUE]

\* MomentumBotJPY.run: self.exchange.load_markets(), and the balance logged
MomentumBotJPY_load_markets ==
    /\ runner = "MomentumBotJPY.run"
    /\ pc = "load_markets"
    /\ \E connected \in BOOLEAN :
          pc' = IF connected THEN "get_price_history" ELSE "returned"
    /\ UNCHANGED <<bot, safety, slack, in_position, entry_price, exchange, trades>>
    /\ BotUnused

\* one pass of the loop of MomentumBotJPY.run up to its time.sleep:
\* get_price_history returns None; or check_stop_loss sells; or the sign of
\* the momentum buys, sells or does neither (print_status changes nothing)
MomentumBotJPY_run ==
    /\ runner = "MomentumBotJPY.run"
    /\ pc = "get_price_history"
    /\ \/ UNCHANGED <<bot, in_position, entry_price, exchange, trades>>
       \/ \E current_price \in LivePrices, balance_ok \in BOOLEAN,
             order_ok \in LiveOrderOutcomes :
             LET priced == [bot EXCEPT !.current_price = current_price]
             IN  IF bot_check_stop_loss(current_price)
                 THEN MomentumBotJPY_execute_sell(priced, current_price,
                                                  balance_ok, order_ok)
                 ELSE \E momentum \in MomentumSigns :
                         IF momentum = "up" /\ ~in_position
                         THEN MomentumBotJPY_execute_buy(priced, current_price,
                                                         balance_ok, order_ok)
                         ELSE IF momentum = "down" /\ in_position
                         THEN MomentumBotJPY_execute_sell(priced, current_price,
                                                          balance_ok, order_ok)
                         ELSE /\ bot' = priced
                              /\ UNCHANGED <<in_position, entry_price, exchange, trades>>
    /\ pc' = "sleep"
    /\ UNCHANGED <<safety, slack>>
    /\ BotUnused

\* time.sleep(...) of either loop: the locals of the pass are dead
live_sleep ==
    /\ runner \in {"MomentumBot.run", "MomentumBotJPY.run"}
    /\ pc = "sleep"
    /\ bot' = [bot EXCEPT !.current_price = None, !.called = "", !.returned = FALSE]
    /\ pc' = "get_price_history"
    /\ UNCHANGED <<safety, slack, in_position, entry_price, exchange, trades>>
    /\ BotUnused

\* except KeyboardInterrupt, raised while the bot sleeps: break
live_keyboard_interrupt ==
    /\ runner \in {"MomentumBot.run", "MomentumBotJPY.run"}
    /\ pc = "sleep"
    /\ pc' = "returned"
    /\ UNCHANGED <<bot, safety, slack, in_position, entry_price, exchange, trades>>
    /\ BotUnused

LiveNext ==
    \/ MomentumBot_run
    \/ MomentumBotJPY_load_markets
    \/ MomentumBotJPY_run
    \/ live_sleep
    \/ live_keyboard_interrupt

\* the three live bots
LiveBotsInit == BotInit \/ LiveInit

LiveBotsNext == BotNext \/ LiveNext

LiveBotsSpec == LiveBotsInit /\ [][LiveBotsNext]_vars

----------------------------------------------------------------------------
(* Every entry point                                                       *)

\* the statistics: calculate_metrics on its own and the strategies' replay
StatsSpec == (AnalyzerInit \/ CompareInit) /\ [][AnalyzerNext \/ CompareNext]_vars

\* the two places that compute the maximum drawdown
DrawdownSpec == (AnalyzerInit \/ OptimizeInit) /\ [][AnalyzerNext \/ OptimizeNext]_vars

AllInit == Init \/ LedgerInit \/ CompareInit

AllNext == Next \/ LedgerNext \/ CompareNext

AllSpec == AllInit /\ [][AllNext]_vars

----------------------------------------------------------------------------
(* Properties                                                              *)

\* a step that is one call of execute_trade: only such a step moves k on by one
ExecuteStep == k' = k + 1

\* the signal that call was given (the direct calls log theirs in signals)
Applied == signals'[k]

Feasible(signal) ==
    IF signal.side = "buy" THEN signal.price * signal.amount <= capital
    ELSE signal.amount <= position

\* C1 (solvency): in every state of every entry point, so after any sequence
\* of signals applied through execute_trade of any of the four ledger
\* classes, capital >= 0 and position >= 0.
C1_Solvency == capital >= 0 /\ position >= 0

\* C1 witness: a strategy's ledger has executed a buy and then a sell that
\* emptied the position, after a signal it could not afford
C1_Witness ==
    /\ runner = "execute_trade"
    /\ strategy = "MomentumStrategy"
    /\ k = 4
    /\ Len(trades) = 2
    /\ trades[1].side = "buy"
    /\ trades[2].side = "sell"
    /\ position = 0

\* C2 (no-op on infeasible signal): a call of execute_trade with a buy whose
\* cost exceeds capital, or a sell whose amount exceeds position, leaves
\* capital, position and the trade log unchanged and raises nothing (the
\* caller goes on at the same place).
C2_InfeasibleNoOp ==
    [][(ExecuteStep /\ ~Feasible(Applied)) =>
          /\ capital' = capital
          /\ position' = position
          /\ trades' = trades
          /\ pc' = pc]_vars

\* C2 witness: a sell from an empty position and a buy dearer than the whole
\* capital have both been handed to BacktestEngine.execute_trade and dropped
C2_Witness ==
    /\ runner = "execute_trade"
    /\ strategy = "BacktestEngine"
    /\ k = 3
    /\ signals[1].side = "sell"
    /\ signals[2].side = "buy"
    /\ signals[2].price * signals[2].amount > LedgerCapital
    /\ trades = <<>>
    /\ capital = LedgerCapital
    /\ position = 0

\* C3 (trade recorded iff ledger mutated), as claimed: a step changes capital
\* or position exactly when it appends one trade to the trade log, and the
\* trade log only grows by appending.
C3_TradeIffMutation ==
    [][/\ (capital' # capital \/ position' # position) <=> (trades' # trades)
       /\ trades' # trades =>
             /\ Len(trades') = Len(trades) + 1
             /\ SubSeq(trades', 1, Len(trades)) = trades]_vars

\* C4 (stop-loss sells the whole position), as claimed: the stop_loss signal
\* handed to execute_trade is executed: capital grows by amount * price, the
\* trade is recorded, and the position is 0 afterwards.
C4_StopLossExecuted ==
    [][(ExecuteStep /\ strategy = "ImprovedGridStrategy" /\ Applied.reason = "stop_loss") =>
          /\ capital' = capital + (Applied.amount * Applied.price)
          /\ trades' = Append(trades, Applied)
          /\ position' = 0]_vars

\* C5 (equity identity): every equity point is appended with
\* equity = capital + position * current_price of its step, and in
\* run_backtest with capital = capital and
\* position_value = position * current_price; no other step touches the curve.
C5_EquityIdentity ==
    [][equity_curve' # equity_curve =>
          /\ Len(equity_curve') = Len(equity_curve) + 1
          /\ SubSeq(equity_curve', 1, Len(equity_curve)) = equity_curve
          /\ LET point == Last(equity_curve')
             IN  /\ point.timestamp = i
                 /\ point.equity = capital + (position * df[i])
                 /\ runner = "run_backtest" =>
                       /\ point.capital = capital
                       /\ point.position_value = position * df[i]]_vars

\* C5 witness: run_backtest has recorded a point while holding a position
\* at a price other than the one it bought at
C5_Witness ==
    /\ runner = "run_backtest"
    /\ pc = "loop"
    /\ i >= 2
    /\ position > 0
    /\ Last(equity_curve).position_value > 0
    /\ Last(trades).price # df[i]

\* C6 (acceptance rule): a buy is accepted iff price * amount <= capital and
\* then takes exactly price * amount from capital and adds amount to
\* position; a sell is accepted iff amount <= position and then adds
\* price * amount to capital and takes amount from position; an accepted
\* signal appends exactly one trade, a rejected one changes nothing.
C6_AcceptanceRule ==
    [][ExecuteStep =>
          LET cost == Applied.price * Applied.amount
              accepted == IF Applied.side = "buy" THEN cost <= capital
                          ELSE Applied.amount <= position
          IN  IF accepted
              THEN /\ capital' = IF Applied.side = "buy" THEN capital - cost
                                 ELSE capital + cost
                   /\ position' = IF Applied.side = "buy" THEN position + Applied.amount
                                  ELSE position - Applied.amount
                   /\ Len(trades') = Len(trades) + 1
                   /\ SubSeq(trades', 1, Len(trades)) = trades
                   /\ Last(trades').side = Applied.side
                   /\ Last(trades').price = Applied.price
                   /\ Last(trades').amount = Applied.amount
              ELSE /\ capital' = capital
                   /\ position' = position
                   /\ trades' = trades]_vars

\* C6 witness: BacktestEngine accepted a buy that cost exactly the capital
\* left and then a sell of exactly the position held
C6_Witness ==
    /\ runner = "execute_trade"
    /\ strategy = "BacktestEngine"
    /\ Len(trades) = 3
    /\ trades[1].side = "buy"
    /\ trades[2].side = "buy"
    /\ trades[1].cost + trades[2].cost = LedgerCapital
    /\ trades[3].side = "sell"
    /\ trades[3].amount = trades[1].amount + trades[2].amount
    /\ position = 0

C8_OnePointPerStep ==
    /\ pc = "loop" => Len(equity_curve) = i
    /\ pc = "apply" => Len(equity_curve) = i - 1
    /\ \A n \in 1..Len(equity_curve) : equity_curve[n].timestamp = n

\* C8 witness: run_backtest has consumed two rows, traded in the first and
\* emitted no signal in the second, and holds two points
C8_Witness ==
    /\ runner = "run_backtest"
    /\ pc = "loop"
    /\ i = 2
    /\ signals = <<>>
    /\ Len(trades) > 0
    /\ Len(equity_curve) = 2

\* C9 (order within a step), for run_backtest: the strategy's state and the
\* signal list change only in the step that takes the next row (one query
\* per row); each trade logged is the signal at the loop's index k, so
\* signals are applied in emission order; and the equity point is appended
\* only after the last signal was applied, from the capital and position
\* they left and the row's closing price.
C9_StepOrder ==
    [][/\ (signals' # signals \/ grid_status' # grid_status \/ last_price' # last_price
             \/ initialized' # initialized) =>
             (pc = "loop" /\ i' = i + 1 /\ k' = 1 /\ pc' = "apply")
       /\ trades' # trades =>
             /\ pc = "apply" /\ k <= Len(signals) /\ k' = k + 1
             /\ trades' = Append(trades, TradeRecord(signals[k].price, signals[k].amount,
                                                     signals[k].side, i))
       /\ equity_curve' # equity_curve =>
             /\ pc = "apply" /\ k = Len(signals) + 1 /\ pc' = "loop"
             /\ Last(equity_curve').equity = capital + (position * df[i])
             /\ Last(equity_curve').timestamp = i]_vars

\* C9 witness: a step emitted a buy for two levels (two different amounts),
\* both were applied, and the step's equity point was recorded
C9_Witness ==
    /\ runner = "run_backtest"
    /\ pc = "loop"
    /\ Len(signals) >= 2
    /\ signals[1].amount # signals[2].amount
    /\ Len(trades) >= 2
    /\ trades[Len(trades)].timestamp = i
    /\ trades[Len(trades) - 1].timestamp = i
    /\ Len(equity_curve) = i

\* C10 (defined result), as claimed: run_backtest never ends in a fault; it
\* returns, with metrics computed, for every price history, the empty one
\* included.
C10_DefinedResult ==
    /\ pc # "KeyError"
    /\ pc = "returned" => (metrics.computed /\ ~metrics.empty)


----------------------------------------------------------------------------
(* Grid crossings (GridTradingStrategy.get_signals)                        *)

\* a step of run_backtest that calls strategy.get_signals for row i + 1
GetSignalsStep == runner = "run_backtest" /\ pc = "loop" /\ pc' = "apply"

\* the price moved from above level j to the level or below it between
\* the previous row and the row of this step
CrossedDown(j) == i >= 1 /\ df[i] > grid_price(j) /\ grid_price(j) >= df[i + 1]

\* the price moved from below level j to the level or above it
CrossedUp(j) == i >= 1 /\ df[i] < grid_price(j) /\ grid_price(j) <= df[i + 1]

\* the positions in the list returned by this step that trade level j
\* (the amount of a grid signal names its level)
SignalsOfLevel(j) ==
    {n \in 1..Len(signals') : signals'[n].amount = grid_amount(grid_price(j))}

\* C11 (as stated): every signal get_signals returns on a step is the one
\* buy or sell of a level the price crossed on that step; no level gets a
\* signal on a step where the price did not cross it.
C11_SignalOnlyOnCrossing ==
    [][GetSignalsStep =>
        \A j \in 0..grid_num :
            /\ Cardinality(SignalsOfLevel(j)) <= 1
            /\ \A n \in SignalsOfLevel(j) :
                  \/ signals'[n].side = "buy" /\ CrossedDown(j)
                  \/ signals'[n].side = "sell" /\ CrossedUp(j)]_vars

\* C11 (amended): on the first evaluation get_signals returns one buy for
\* every level below the price, with no crossing; on every later step a
\* level gets exactly one buy when the price crossed it downward and it was
\* empty, exactly one sell when the price crossed it upward and it was
\* filled, and no signal otherwise, so a crossing is never traded twice.
C11_CrossingOrBootstrap ==
    [][GetSignalsStep =>
        /\ \A n \in 1..Len(signals') : \E j \in 0..grid_num : n \in SignalsOfLevel(j)
        /\ \A j \in 0..grid_num :
              IF i = 0
              THEN /\ Cardinality(SignalsOfLevel(j)) =
                        (IF grid_price(j) < df[1] THEN 1 ELSE 0)
                   /\ \A n \in SignalsOfLevel(j) : signals'[n].side = "buy"
              ELSE /\ Cardinality(SignalsOfLevel(j)) =
                        (IF \/ CrossedDown(j) /\ grid_status[j] = "empty"
                            \/ CrossedUp(j) /\ grid_status[j] = "filled"
                         THEN 1 ELSE 0)
                   /\ \A n \in SignalsOfLevel(j) :
                         signals'[n].side = (IF CrossedDown(j) THEN "buy" ELSE "sell")]_vars

\* the path 100, 95, 90, 95: the bootstrap bought levels 90 and 95, the two
\* downward crossings found them filled, the upward crossing of 95 sold it
C11_Witness ==
    /\ runner = "run_backtest"
    /\ pc = "apply"
    /\ i = 4
    /\ df = <<100, 95, 90, 95>>
    /\ Len(signals) = 1
    /\ signals[1].side = "sell"
    /\ signals[1].amount = grid_amount(95)
    /\ grid_status[1] = "empty"


----------------------------------------------------------------------------
(* Insufficient history (get_signals of the strategies)                    *)

\* the number of samples below which the strategy of the run has too
\* little history: lookback, ma_period or volatility_window
RequiredHistory ==
    CASE strategy = "MomentumStrategy"      -> lookback
      [] strategy = "MeanReversionStrategy" -> ma_period
      [] strategy = "ImprovedGridStrategy"  -> volatility_window

\* a step of run_strategy_comparison that calls strategy.get_signals
CompareSignalsStep ==
    runner = "run_strategy_comparison" /\ pc = "loop" /\ pc' = "apply"

\* C12: a call of get_signals with fewer samples than the strategy needs
\* (lookback for MomentumStrategy, ma_period for MeanReversionStrategy,
\* volatility_window for ImprovedGridStrategy) returns the empty list,
\* whatever the prices, changes neither the ledger nor the position flags,
\* and the run goes on to the rest of the step.
C12_InsufficientHistory ==
    [][(CompareSignalsStep /\ i' < RequiredHistory) =>
          /\ signals' = <<>>
          /\ pc' = "apply"
          /\ UNCHANGED <<ledgerVars, in_position, entry_price>>]_vars

\* MomentumStrategy one sample short of lookback, after a rise of 47 percent
C12_Witness ==
    /\ runner = "run_strategy_comparison"
    /\ strategy = "MomentumStrategy"
    /\ pc = "apply"
    /\ i = lookback - 1
    /\ i >= 2
    /\ df[i - 1] = 136
    /\ df[i] = 200
    /\ signals = <<>>


----------------------------------------------------------------------------
(* Win rate (PerformanceAnalyzer.calculate_metrics)                        *)

\* the buys of the trade log that precede trade n in time
PrecedingBuys(n) ==
    {m \in 1..Len(trades) :
        trades[m].side = "buy" /\ trades[m].timestamp < trades[n].timestamp}

\* the sells that have a buy before them: the pairs
Pairs == {n \in 1..Len(trades) : trades[n].side = "sell" /\ PrecedingBuys(n) # {}}

\* the most recent of the buys that precede sell n
MostRecentBuy(n) == CHOOSE m \in PrecedingBuys(n) : \A other \in PrecedingBuys(n) : other <= m

\* the pairs whose sell price is above the price of the paired buy
WinningPairs == {n \in Pairs : trades[n].price > trades[MostRecentBuy(n)].price}

\* C13: the win rate calculate_metrics reports is the number of sells priced
\* above the most recent buy that precedes them in time, over the number of
\* sells that have such a buy, as a percentage to two decimals (0 when
\* there is no pair); for buy@100, sell@110, buy@90, sell@80 it is 50.00.
C13_WinRatePairing ==
    (runner = "calculate_metrics" /\ metrics.computed /\ ~metrics.empty) =>
        /\ Pairs = {} => metrics.win_rate = 0
        /\ Pairs # {} =>
              /\ (2 * Cardinality(Pairs) * metrics.win_rate) - Cardinality(Pairs)
                    <= 2 * 10^4 * Cardinality(WinningPairs)
              /\ 2 * 10^4 * Cardinality(WinningPairs)
                    <= (2 * Cardinality(Pairs) * metrics.win_rate) + Cardinality(Pairs)
        /\ ([n \in 1..Len(trades) |-> <<trades[n].side, trades[n].price, trades[n].timestamp>>]
               = <<(<<"buy", 100, 1>>), (<<"sell", 110, 2>>),
                   (<<"buy", 90, 3>>), (<<"sell", 80, 4>>)>>)
              => metrics.win_rate = 50 * 100

\* the trade log of the claim, analysed
C13_Witness ==
    /\ runner = "calculate_metrics"
    /\ metrics.computed
    /\ Len(trades) = 4
    /\ [n \in 1..4 |-> <<trades[n].side, trades[n].price, trades[n].timestamp>>]
         = <<(<<"buy", 100, 1>>), (<<"sell", 110, 2>>),
             (<<"buy", 90, 3>>), (<<"sell", 80, 4>>)>>
    /\ metrics.win_rate = 50 * 100
    /\ Cardinality(Pairs) = 2


----------------------------------------------------------------------------
(* Analysis is a function of its arguments                                 *)

----------------------------------------------------------------------------
(* Degenerate statistics                                                   *)

\* every step of the equity curve has the same return, so that the
\* standard deviation of the step returns is 0
StepReturnsEqual ==
    \A n, m \in 1..(Len(equity_curve) - 1) :
        (equity_curve[n + 1].equity - equity_curve[n].equity) * equity_curve[m].equity
          = (equity_curve[m + 1].equity - equity_curve[m].equity) * equity_curve[n].equity

\* the last ma_period samples of the history of this step are all equal,
\* so that their rolling standard deviation is 0
FlatWindow ==
    /\ i' >= ma_period
    /\ \A n \in (i' - ma_period + 1)..i' : df[n] = df[i']

----------------------------------------------------------------------------
(* The table of optimize_parameters                                        *)

\* the rows of the returned table that belong to the t-th combination of
\* the nested loops
RowsOf(t) ==
    {n \in 1..Len(results_df) :
        /\ results_df[n].grid_num = Combination(t).grid_num
        /\ results_df[n].range_ratio = Combination(t).range_ratio}

\* C15: the table optimize_parameters returns has exactly one row for every
\* (grid_num, range_ratio) of the cartesian product, and total_return
\* never rises from one row to the next.
C15_RankedTable ==
    (runner = "optimize_parameters" /\ pc = "returned") =>
        /\ Len(results_df) = total_tests
        /\ \A t \in 1..total_tests : Cardinality(RowsOf(t)) = 1
        /\ \A n \in 1..(Len(results_df) - 1) :
              results_df[n].total_return >= results_df[n + 1].total_return

\* a returned table whose best row is not the first combination tested
C15_Witness ==
    /\ runner = "optimize_parameters"
    /\ pc = "returned"
    /\ Len(results_df) = total_tests
    /\ results_df[1].total_return > results_df[total_tests].total_return
    /\ results_df[1].grid_num # grid_nums[1]

\* C16: two rows of the returned table with equal total_return stand in
\* the order in which their combinations were enumerated (grid_num outer
\* loop, range_ratio inner loop).
C16_StableRanking ==
    (runner = "optimize_parameters" /\ pc = "returned") =>
        \A t, u \in 1..total_tests : \A a \in RowsOf(t), b \in RowsOf(u) :
            (t < u /\ results_df[a].total_return = results_df[b].total_return) => a < b

\* C17: every combination starts from a new ledger (capital =
\* initial_capital, no position, no trades, no equity points) and a new
\* grid (every level empty, not initialized, no last price), and a sweep
\* that takes the combinations in the opposite order appends, for each
\* combination, the same row.
C17_IndependentRuns ==
    /\ (runner = "optimize_parameters" /\ pc = "loop" /\ i = 0) =>
          /\ capital = optimizer_capital * SCALE
          /\ position = 0
          /\ trades = <<>>
          /\ equity_curve = <<>>
          /\ ~initialized
          /\ last_price = None
          /\ \A level \in DOMAIN grid_status : grid_status[level] = "empty"
    /\ (runner = "optimize_parameters" /\ run_no = 2) =>
          \A t \in 1..Len(results) : results[t] = previous.results[total_tests + 1 - t]

\* the second sweep is through, and its first row, of the last
\* combination of the nested loops, records trades
C17_Witness ==
    /\ runner = "optimize_parameters"
    /\ run_no = 2
    /\ pc = "returned"
    /\ Len(results) = total_tests
    /\ results[1].grid_num = grid_nums[Len(grid_nums)]
    /\ results[1].trade_count > 0
    /\ results[1].total_return # results[total_tests].total_return


----------------------------------------------------------------------------
(* entry_price of ImprovedGridStrategy                                     *)

\* C18: between the steps of a replay of ImprovedGridStrategy (all
\* signals of the step applied) entry_price is set exactly when position
\* is above 0, and entry_price goes from set to None only in a step
\* that brings position to 0.
C18_EntryPriceIffPosition ==
    /\ []((runner = "run_strategy_comparison" /\ strategy = "ImprovedGridStrategy"
            /\ pc = "loop") => ((entry_price # None) <=> (position > 0)))
    /\ [][(runner = "run_strategy_comparison" /\ strategy = "ImprovedGridStrategy"
            /\ entry_price # None /\ entry_price' = None) => position' = 0]_vars

\* a position was bought and later given up: position is back at 0 and
\* entry_price is None again
C18_Witness ==
    /\ runner = "run_strategy_comparison"
    /\ strategy = "ImprovedGridStrategy"
    /\ pc = "loop"
    /\ trades # <<>>
    /\ position = 0
    /\ entry_price = None

\* the rows of the call in progress that the first call's df had too and that
\* this call has finished
AgreedRows == Min(previous.agree, Len(equity_curve))

\* C19 (no look-ahead): when run_backtest or run_strategy_comparison is called
\* on two price histories that agree on their first n samples, the signals
\* get_signals returns, the trades logged and the equity points recorded for
\* the first n steps are the same in both calls, whatever the later samples.
C19_NoLookAhead ==
    (run_no = 2 /\ runner \in {"run_backtest", "run_strategy_comparison"}) =>
        /\ \A step \in 1..Min(previous.agree, Len(signal_log)) :
              signal_log[step] = previous.signal_log[step]
        /\ \A step \in 1..AgreedRows : equity_curve[step] = previous.equity_curve[step]
        /\ SelectSeq(trades, LAMBDA trade : trade.timestamp <= AgreedRows)
             = SelectSeq(previous.trades, LAMBDA trade : trade.timestamp <= AgreedRows)

\* C19 witness: a second call, on a df that has another last row than the
\* first call's, has replayed the rows the two share, with a trade among them
C19_Witness ==
    /\ run_no = 2
    /\ runner \in {"run_backtest", "run_strategy_comparison"}
    /\ previous.agree >= 2
    /\ Len(df) = previous.agree + 1
    /\ Len(equity_curve) = Len(df)
    /\ previous.trades # <<>>
    /\ previous.signal_log # signal_log

----------------------------------------------------------------------------
(* The crossing rule and the bootstrap of GridTradingStrategy              *)

\* the sides of the signals the list returned by this step holds for level j
SidesOfLevel(j) == {signals'[n].side : n \in SignalsOfLevel(j)}

\* C21 (crossing rule): on every step of run_backtest after the first, a buy
\* is returned for level L iff last_price > L >= current price and L is
\* empty, and L is then filled; a sell is returned for L iff
\* last_price < L <= current price and L is filled, and L is then empty;
\* every other level keeps its status; a level gets at most one signal in a
\* step; last_price is the price of the row before and becomes this row's.
C21_CrossingRule ==
    [][(GetSignalsStep /\ i >= 1) =>
        /\ last_price = df[i]
        /\ last_price' = df[i + 1]
        /\ \A n \in 1..Len(signals') :
              /\ signals'[n].price = df[i + 1]
              /\ \E j \in 0..grid_num : n \in SignalsOfLevel(j)
        /\ \A j \in 0..grid_num :
              LET L    == grid_price(j)
                  buy  == last_price > L /\ L >= df[i + 1] /\ grid_status[j] = "empty"
                  sell == last_price < L /\ L <= df[i + 1] /\ grid_status[j] = "filled"
              IN  /\ ("buy" \in SidesOfLevel(j)) <=> buy
                  /\ ("sell" \in SidesOfLevel(j)) <=> sell
                  /\ Cardinality(SignalsOfLevel(j)) <= 1
                  /\ grid_status'[j] = (IF buy THEN "filled"
                                        ELSE IF sell THEN "empty" ELSE grid_status[j])]_vars

\* C21 witness: on the path 115, 90, 115, 90 the rise sold the four levels
\* above 90 and the fall that follows crosses them again: four buys in one step
C21_Witness ==
    /\ runner = "run_backtest"
    /\ pc = "apply"
    /\ i = 4
    /\ df = <<115, 90, 115, 90>>
    /\ Len(signals) = 4
    /\ \A n \in 1..4 : signals[n].side = "buy"
    /\ \A j \in 0..grid_num : grid_status[j] = "filled"
    /\ last_price = 90

\* C22 (bootstrap): the call of get_signals on the first row, and only that
\* call, finds the strategy not initialized; it returns exactly one buy for
\* every level strictly below the price and nothing else, marks exactly those
\* levels filled and leaves the levels at or above the price empty; once
\* initialized the strategy stays so.
C22_Bootstrap ==
    [][/\ GetSignalsStep => (~initialized <=> i = 0)
       /\ (GetSignalsStep /\ ~initialized) =>
             /\ initialized'
             /\ \A n \in 1..Len(signals') :
                   /\ signals'[n].side = "buy"
                   /\ \E j \in 0..grid_num : n \in SignalsOfLevel(j)
             /\ \A j \in 0..grid_num :
                   /\ Cardinality(SignalsOfLevel(j)) =
                         (IF grid_price(j) < df[1] THEN 1 ELSE 0)
                   /\ grid_status'[j] =
                         (IF grid_price(j) < df[1] THEN "filled" ELSE "empty")
       /\ (runner = "run_backtest" /\ initialized) => initialized']_vars

\* C22 witness: the first row, at 100, bought the levels 90 and 95 and left
\* 100, 105 and 110 empty
C22_Witness ==
    /\ runner = "run_backtest"
    /\ pc = "apply"
    /\ i = 1
    /\ df[1] = 100
    /\ Len(signals) = 2
    /\ grid_status = [j \in 0..grid_num |-> IF j <= 1 THEN "filled" ELSE "empty"]
    /\ initialized

----------------------------------------------------------------------------
(* The stop-loss of ImprovedGridStrategy                                   *)

\* a step of run_strategy_comparison that calls ImprovedGridStrategy.get_signals
ImprovedGridSignalsStep == CompareSignalsStep /\ strategy = "ImprovedGridStrategy"

\* the stop-loss fires on the row of this step: a position is held whose
\* loss from entry_price is more than stop_loss_pct percent
StopLossFires ==
    /\ entry_price # None
    /\ position > 0
    /\ (entry_price - df[i + 1]) * 100 > stop_loss_pct * entry_price

\* C23 (stop-loss before the grid): on a step where the stop-loss fires
\* get_signals returns exactly one signal, a sell of the whole position held
\* with reason stop_loss, and no grid_buy or grid_sell; on a step where it
\* does not fire no signal has reason stop_loss.
C23_StopLossFirst ==
    [][ImprovedGridSignalsStep =>
        IF StopLossFires
        THEN /\ Len(signals') = 1
             /\ signals'[1].side = "sell"
             /\ signals'[1].reason = "stop_loss"
             /\ signals'[1].amount = position
             /\ signals'[1].price = df[i + 1]
        ELSE \A n \in 1..Len(signals') : signals'[n].reason # "stop_loss"]_vars

\* C23 witness: a position bought by the grid, and a row more than 15 percent
\* below entry_price that crosses levels of the rebuilt grid downward, answered
\* by the stop-loss sell alone
C23_Witness ==
    /\ runner = "run_strategy_comparison"
    /\ strategy = "ImprovedGridStrategy"
    /\ pc = "apply"
    /\ k = 1
    /\ trades # <<>>
    /\ Len(signals) = 1
    /\ signals[1].reason = "stop_loss"
    /\ signals[1].amount > 0
    /\ last_price > df[i]

----------------------------------------------------------------------------
(* The state machines of MomentumStrategy and MeanReversionStrategy        *)

\* the sides of the signals get_signals returned so far in this run, in order
\* (for the strategies that return at most one signal per call)
EmittedSides ==
    LET emitted == SelectSeq(signal_log, LAMBDA list : list # <<>>)
    IN  [n \in 1..Len(emitted) |-> emitted[n][1].side]

\* buy, sell, buy, ...
Alternating(sides) ==
    \A n \in 1..Len(sides) : sides[n] = (IF n % 2 = 1 THEN "buy" ELSE "sell")

\* a step of run_strategy_comparison that calls MomentumStrategy.get_signals
MomentumSignalsStep == CompareSignalsStep /\ strategy = "MomentumStrategy"

\* momentum = price[t] / price[t - lookback] - 1 of the row of this step is
\* defined and above +threshold, or below -threshold
MomentumUp ==
    /\ i + 1 > lookback
    /\ (df[i + 1] - df[i + 1 - lookback]) * 100 > threshold_pct * df[i + 1 - lookback]

MomentumDown ==
    /\ i + 1 > lookback
    /\ (df[i + 1 - lookback] - df[i + 1]) * 100 > threshold_pct * df[i + 1 - lookback]

\* C24 (momentum state machine): get_signals of MomentumStrategy returns a
\* buy, of 95% of capital at the current price, iff momentum > +threshold
\* while flat, and a sell of the whole position iff momentum < -threshold
\* while in position, and nothing else; so the signals of a run alternate
\* buy, sell, buy, ... from a buy on, and the execution of a sell leaves the
\* position at exactly 0.
C24_MomentumStateMachine ==
    /\ []((runner = "run_strategy_comparison" /\ strategy = "MomentumStrategy") =>
            /\ Alternating(EmittedSides)
            /\ pc = "loop" => (in_position <=> position > 0))
    /\ [][MomentumSignalsStep =>
            /\ Len(signals') <= 1
            /\ (signals' # <<>> /\ signals'[1].side = "buy") <=> (MomentumUp /\ ~in_position)
            /\ (signals' # <<>> /\ signals'[1].side = "sell") <=> (MomentumDown /\ in_position)
            /\ \A n \in 1..Len(signals') :
                  /\ signals'[n].price = df[i + 1]
                  /\ signals'[n].amount =
                        (IF signals'[n].side = "buy"
                         THEN MulDiv(capital, 95, 100) \div df[i + 1] ELSE position)]_vars
    /\ [][(runner = "run_strategy_comparison" /\ strategy = "MomentumStrategy"
             /\ ExecuteStep /\ Applied.side = "sell") => position' = 0]_vars

\* C24 witness: a buy on a rise and the sell on the fall that follows, both
\* executed, with the position back at 0
C24_Witness ==
    /\ runner = "run_strategy_comparison"
    /\ strategy = "MomentumStrategy"
    /\ pc = "loop"
    /\ EmittedSides = <<"buy", "sell">>
    /\ Len(trades) = 2
    /\ position = 0
    /\ ~in_position

\* a step of run_strategy_comparison that calls MeanReversionStrategy.get_signals
MeanReversionSignalsStep == CompareSignalsStep /\ strategy = "MeanReversionStrategy"

\* the ma_period rows that end with row n
RollingWindow(n) == SubSeq(df, n + 1 - ma_period, n)

\* ma_period times the distance of row n from the rolling mean
Deviation(n) == (ma_period * df[n]) - SumSeq(RollingWindow(n))

\* ma_period * (ma_period - 1) times the rolling variance (ddof = 1)
Spread(n) ==
    (ma_period * SumSeq([m \in 1..ma_period |-> RollingWindow(n)[m] * RollingWindow(n)[m]]))
      - (SumSeq(RollingWindow(n)) * SumSeq(RollingWindow(n)))

\* z = (price - rolling mean) / rolling std at row n, taken as 0 on a flat
\* window: z < -std_threshold, z > -1/2 and z > +std_threshold
Oversold(n) ==
    /\ n >= ma_period
    /\ Spread(n) # 0
    /\ Deviation(n) < 0
    /\ Deviation(n) * Deviation(n) * (ma_period - 1)
         > std_threshold * std_threshold * ma_period * Spread(n)

Reverted(n) ==
    /\ n >= ma_period
    /\ \/ Spread(n) = 0
       \/ Deviation(n) >= 0
       \/ 4 * Deviation(n) * Deviation(n) * (ma_period - 1) < ma_period * Spread(n)

Overbought(n) ==
    /\ n >= ma_period
    /\ Spread(n) # 0
    /\ Deviation(n) > 0
    /\ Deviation(n) * Deviation(n) * (ma_period - 1)
         > std_threshold * std_threshold * ma_period * Spread(n)

\* C25 (mean-reversion state machine): get_signals of MeanReversionStrategy
\* returns a buy of 95% of capital iff z < -std_threshold while flat, a sell
\* of the whole position iff z > -0.5 while in position, and at most one
\* signal per step.
C25_MeanReversionStateMachine ==
    [][MeanReversionSignalsStep =>
        /\ Len(signals') <= 1
        /\ (signals' # <<>> /\ signals'[1].side = "buy") <=> (Oversold(i + 1) /\ ~in_position)
        /\ (signals' # <<>> /\ signals'[1].side = "sell") <=> (Reverted(i + 1) /\ in_position)
        /\ \A n \in 1..Len(signals') :
              /\ signals'[n].price = df[i + 1]
              /\ signals'[n].amount =
                    (IF signals'[n].side = "buy"
                     THEN MulDiv(capital, 95, 100) \div df[i + 1] ELSE position)
        /\ in_position' = (IF signals' = <<>> THEN in_position ELSE ~in_position)]_vars

\* C25 witness: bought when oversold, held while z stayed at or below -0.5,
\* and sold on the row where z came back above -0.5
C25_Witness ==
    /\ runner = "run_strategy_comparison"
    /\ strategy = "MeanReversionStrategy"
    /\ pc = "apply"
    /\ EmittedSides = <<"buy", "sell">>
    /\ Len(signals) = 1
    /\ signals[1].side = "sell"
    /\ signals[1].amount = position
    /\ \E n \in 1..Len(signal_log) - 1 : signal_log[n] = <<>> /\ ~Reverted(n) /\ n > ma_period

\* C26 (no short side): while flat MeanReversionStrategy returns no sell, in
\* particular none when z > +std_threshold, and on no path does its position
\* go below 0.
C26_NoShortSide ==
    /\ []((runner = "run_strategy_comparison" /\ strategy = "MeanReversionStrategy") =>
            position >= 0)
    /\ [][(MeanReversionSignalsStep /\ ~in_position) =>
            \A n \in 1..Len(signals') : signals'[n].side # "sell"]_vars

\* C26 witness: flat on a row with z > +std_threshold, and get_signals
\* returned nothing
C26_Witness ==
    /\ runner = "run_strategy_comparison"
    /\ strategy = "MeanReversionStrategy"
    /\ pc = "apply"
    /\ Overbought(i)
    /\ ~in_position
    /\ position = 0
    /\ signals = <<>>

----------------------------------------------------------------------------
(* Maximum drawdown                                                        *)

\* the largest equity among the first n points of the curve
RunningMaximum(n) ==
    CHOOSE x \in {equity_curve[m].equity : m \in 1..n} :
        \A m \in 1..n : equity_curve[m].equity <= x

\* (equity - running maximum) / running maximum at point n, in hundredths of
\* a percent
DrawdownAt(n) ==
    LET below == RunningMaximum(n) - equity_curve[n].equity
    IN  IF below < 10^5
        THEN 0 - ((below * 10^4) \div RunningMaximum(n))
        ELSE 0 - ((below * 10) \div (RunningMaximum(n) \div 10^3))

\* some point of the curve lies below an earlier one
Falls ==
    \E m, n \in 1..Len(equity_curve) : m < n /\ equity_curve[n].equity < equity_curve[m].equity

\* reported is the maximum drawdown the claim describes
IsMaximumDrawdown(reported) ==
    /\ \E n \in 1..Len(equity_curve) : reported = DrawdownAt(n)
    /\ \A n \in 1..Len(equity_curve) : reported <= DrawdownAt(n)
    /\ reported <= 0
    /\ reported = 0 <=> ~Falls

\* C27 (maximum drawdown): the maximum drawdown in the metrics of
\* calculate_metrics, and in the row optimize_parameters appends for a
\* combination, is the minimum over the equity curve of
\* (equity - running maximum) / running maximum; it is <= 0, and it is 0
\* exactly when no point of the curve lies below an earlier one.
C27_MaxDrawdown ==
    /\ (runner = "calculate_metrics" /\ metrics.computed /\ ~metrics.empty) =>
          IsMaximumDrawdown(metrics.max_drawdown)
    /\ (runner = "optimize_parameters" /\ pc = "test" /\ equity_curve # <<>>) =>
          IsMaximumDrawdown(Last(results).max_drawdown)

\* C27 witnesses: calculate_metrics on a curve that rises, falls and recovers
\* above its start, the drawdown measured from the peak; a combination of
\* optimize_parameters whose equity fell
C27_Witness ==
    /\ runner = "calculate_metrics"
    /\ metrics.computed
    /\ Len(equity_curve) = 3
    /\ equity_curve[1].equity = 100
    /\ equity_curve[2].equity = 121
    /\ equity_curve[3].equity = 110
    /\ metrics.max_drawdown = 0 - 909

----------------------------------------------------------------------------
(* The dynamic range of ImprovedGridStrategy                               *)

\* the annualized volatility of the volatility_window rows that end with row
\* n: the sample standard deviation of their returns times sqrt(365), in
\* units of 1/SCALE
AnnualizedVolatility(n) ==
    (std(pct_change(SubSeq(df, n + 1 - volatility_window, n))) * SQRT_365) \div SCALE

\* the volatility of row n clamped to [0.15, 0.30]
ClampedRange(n) ==
    IF AnnualizedVolatility(n) < 1500 THEN 1500
    ELSE IF AnnualizedVolatility(n) > 3000 THEN 3000
    ELSE AnnualizedVolatility(n)

\* levels is the grid of row n: N + 1 equally spaced levels that start at
\* price * (1 - range_pct) and end at price * (1 + range_pct) (up to the
\* rounding of the step), so that the price is their centre
RebuiltGrid(levels, n) ==
    LET lower == df[n] * (SCALE - ClampedRange(n))
        upper == df[n] * (SCALE + ClampedRange(n))
    IN  /\ Len(levels) = ImprovedGrid_grid_num + 1
        /\ levels[1] = lower
        /\ \A m \in 1..ImprovedGrid_grid_num :
              levels[m + 1] - levels[m] = levels[2] - levels[1]
        /\ Last(levels) <= upper
        /\ upper - Last(levels) < ImprovedGrid_grid_num
        /\ lower + upper = 2 * df[n] * SCALE

\* C28 (as stated): on every step with at least volatility_window samples
\* get_signals rebuilds the grid around the current price.
C28_RebuiltOnEveryStep ==
    [][(ImprovedGridSignalsStep /\ i + 1 >= volatility_window) =>
            RebuiltGrid(grid_prices', i + 1)]_vars

\* C28 (amended): on every step with at least volatility_window samples on
\* which the stop-loss does not fire, get_signals rebuilds the grid as N + 1
\* equally spaced levels from price * (1 - range_pct) to
\* price * (1 + range_pct), range_pct the annualized volatility clamped to
\* [0.15, 0.30], and keeps no fill state; on a step where the stop-loss
\* fires, and on a step with fewer samples, the grid is left as it was.
C28_RebuiltUnlessStopLoss ==
    [][ImprovedGridSignalsStep =>
        /\ IF i + 1 >= volatility_window /\ ~StopLossFires
           THEN RebuiltGrid(grid_prices', i + 1)
           ELSE grid_prices' = grid_prices
        /\ grid_status' = grid_status
        /\ \A j \in DOMAIN grid_status : grid_status[j] = "empty"]_vars

\* C28 witness: a grid rebuilt with a range strictly between 15% and 30%,
\* around a price other than the one of the row before
C28_Witness ==
    /\ runner = "run_strategy_comparison"
    /\ strategy = "ImprovedGridStrategy"
    /\ pc = "apply"
    /\ i >= volatility_window
    /\ df[i] # df[i - 1]
    /\ ClampedRange(i) > 1500
    /\ ClampedRange(i) < 3000
    /\ RebuiltGrid(grid_prices, i)

----------------------------------------------------------------------------
(* MomentumBotSafe: the daily loss limit                                    *)

\* the step of run that fetches the balance and calls check_daily_loss
DailyLossStep ==
    /\ runner = "MomentumBotSafe.run"
    /\ pc = "check_daily_loss"
    /\ pc' # pc

\* the balances run can compute in this iteration: the account valued at
\* current_price, or 0 when the balance could not be fetched
TotalBalances ==
    {exchange.JPY + (exchange.BTC * bot.current_price), 0}

\* C29: after the daily loss limit stopped trading, the first
\* check_daily_loss call on a later calendar date clears
\* daily_trading_stopped, takes the balance of that call as the start
\* balance of the day and records the date; unless an emergency stop is set
\* the iteration goes on to the stop-loss check and the buy/sell signals.
C29_ResumesNextDay ==
    [][(/\ DailyLossStep
        /\ safety.daily_trading_stopped
        /\ exchange.today # safety.last_reset_date) =>
            /\ ~safety'.daily_trading_stopped
            /\ safety'.daily_start_balance \in TotalBalances
            /\ safety'.last_reset_date = exchange.today
            /\ pc' = IF safety'.emergency_stop THEN "sleep" ELSE "check_stop_loss"]_vars

\* C29 witness: trading was stopped by the daily loss limit on an earlier
\* date, no emergency stop is set, and the bot, holding its position, is
\* about to call check_daily_loss on a later date
C29_Witness ==
    /\ runner = "MomentumBotSafe.run"
    /\ pc = "check_daily_loss"
    /\ safety.daily_trading_stopped
    /\ ~safety.emergency_stop
    /\ safety.last_reset_date < exchange.today
    /\ in_position
    /\ safety.daily_start_balance > 0

----------------------------------------------------------------------------
(* Equity across the calls of a replay step                                 *)

\* a step of run_backtest or run_strategy_comparison that calls get_signals,
\* or that applies one of the signals returned
ReplayCallStep ==
    /\ runner \in {"run_backtest", "run_strategy_comparison"}
    /\ GetSignalsStep \/ CompareSignalsStep \/ (pc = "apply" /\ ExecuteStep)

\* capital + position * current_price before and after the step, at the
\* price of the row the step works on
EquityBefore == capital + (position * df[i'])
EquityAfter  == capital' + (position' * df[i'])

\* C30 (trades are value-neutral), as claimed: neither the call of
\* get_signals nor any call of execute_trade in a replay step changes
\* capital + position * current_price, so equity at the step's price is the
\* same before get_signals and after the last execute_trade.
C30_ValueNeutral ==
    [][ReplayCallStep => EquityAfter = EquityBefore]_vars

\* the same for the calls that are not the stop-loss of ImprovedGridStrategy
C30_ValueNeutralWithoutStopLoss ==
    [][(ReplayCallStep /\ ~(ImprovedGridSignalsStep /\ StopLossFires)) =>
          EquityAfter = EquityBefore]_vars

\* the step after a stop-loss: the sell of the whole position is handed to
\* execute_trade with nothing left to sell, and the ledger stays as
\* get_signals left it
C30_StopLossNotRecovered ==
    [][(/\ runner = "run_strategy_comparison"
        /\ strategy = "ImprovedGridStrategy"
        /\ pc = "apply"
        /\ ExecuteStep
        /\ Applied.reason = "stop_loss") =>
            /\ position = 0
            /\ UNCHANGED <<capital, position, trades>>]_vars

----------------------------------------------------------------------------
(* The grid's fill status and the ledger                                    *)

\* a step of run_backtest that hands one signal of get_signals to
\* BacktestEngine.execute_trade
BacktestExecuteStep == runner = "run_backtest" /\ pc = "apply" /\ ExecuteStep

\* C31 (fill status agrees with the ledger), as claimed: get_signals flips
\* the status of a level exactly when it returns the level's signal, so the
\* status agrees with the ledger iff every signal handed to execute_trade in
\* run_backtest is executed: a buy whose level is now filled is recorded and
\* adds its amount to the position, a sell whose level is now empty is
\* recorded and takes its amount from the position.
C31_StatusAgreesWithLedger ==
    [][BacktestExecuteStep =>
          /\ Len(trades') = Len(trades) + 1
          /\ position' = (IF Applied.side = "buy"
                          THEN position + Applied.amount
                          ELSE position - Applied.amount)]_vars

----------------------------------------------------------------------------
(* last_price of ImprovedGridStrategy                                       *)

\* C32 (last_price is the previous close), as claimed: when get_signals of
\* ImprovedGridStrategy is called on any row after the first, last_price is
\* the close of the row before, the row after a stop-loss included.
C32_LastPriceIsPreviousClose ==
    [][(ImprovedGridSignalsStep /\ i >= 1) => last_price = df[i]]_vars

\* the same for the calls that do not follow a stop-loss step
C32_LastPriceUnlessAfterStopLoss ==
    [][(/\ ImprovedGridSignalsStep
        /\ i >= 1
        /\ ~(Last(signal_log) # <<>> /\ Last(signal_log)[1].reason = "stop_loss")) =>
            last_price = df[i]]_vars

----------------------------------------------------------------------------
(* The grid signals of ImprovedGridStrategy and its ledger                  *)

\* a step of run_strategy_comparison that hands one signal of
\* ImprovedGridStrategy.get_signals to its execute_trade
ImprovedGridExecuteStep ==
    /\ runner = "run_strategy_comparison"
    /\ strategy = "ImprovedGridStrategy"
    /\ pc = "apply"
    /\ ExecuteStep

\* C33 (every grid signal is accepted), as claimed: every grid_buy and
\* grid_sell that get_signals returned is executed by execute_trade in the
\* same step, whatever the number of levels crossed at once: the trade is
\* recorded and the ledger moves by its amount.
C33_GridSignalsAccepted ==
    [][(ImprovedGridExecuteStep /\ Applied.reason \in {"grid_buy", "grid_sell"}) =>
          /\ trades' = Append(trades, Applied)
          /\ position' = (IF Applied.side = "buy"
                          THEN position + Applied.amount
                          ELSE position - Applied.amount)]_vars

\* the same for the grid_buy signals alone
C33_GridBuysAccepted ==
    [][(ImprovedGridExecuteStep /\ Applied.reason = "grid_buy") =>
          /\ trades' = Append(trades, Applied)
          /\ capital' = capital - (Applied.price * Applied.amount)
          /\ position' = position + Applied.amount]_vars

----------------------------------------------------------------------------
(* in_position of MomentumStrategy and MeanReversionStrategy                *)

\* run_strategy_comparison drives one of the two strategies with a flag
FlagStrategyRuns ==
    /\ runner = "run_strategy_comparison"
    /\ strategy \in {"MomentumStrategy", "MeanReversionStrategy"}

\* between two rows of the replay: before get_signals, after the equity point
StepBoundary == pc = "loop"

\* C34 (in_position agrees with the ledger): for MomentumStrategy and
\* MeanReversionStrategy under run_strategy_comparison, at every step
\* boundary in_position is True iff position > 0, and every signal handed to
\* execute_trade is executed: the trade is recorded, a buy takes its cost
\* from the capital and adds its amount to the position, a sell empties the
\* position.
C34_FlagAgreesWithLedger ==
    /\ []((FlagStrategyRuns /\ StepBoundary) => (in_position <=> position > 0))
    /\ [][(FlagStrategyRuns /\ pc = "apply" /\ ExecuteStep) =>
             /\ trades' = Append(trades, Applied)
             /\ IF Applied.side = "buy"
                THEN /\ capital' = capital - (Applied.price * Applied.amount)
                     /\ position' = position + Applied.amount
                     /\ position' > 0
                ELSE /\ capital' = capital + (Applied.price * Applied.amount)
                     /\ position' = 0]_vars

\* C34 witness: at a step boundary after a buy, a sell and a second buy were
\* executed, the flag set and a position held
C34_Witness ==
    /\ FlagStrategyRuns
    /\ StepBoundary
    /\ Len(trades) = 3
    /\ trades[2].side = "sell"
    /\ in_position
    /\ position > 0

----------------------------------------------------------------------------
(* run_backtest and optimize_parameters on the same parameters              *)

\* the rows of the sweep so far that belong to the combination run_backtest
\* was called with
ComparedRows ==
    {n \in 1..Len(results) :
        /\ results[n].grid_num = Combination(previous.test).grid_num
        /\ results[n].range_ratio = Combination(previous.test).range_ratio}

\* C35 (same replay): after run_backtest returned for the lower_price,
\* upper_price and grid_num of a combination and the default capital, the
\* row optimize_parameters appends for that combination on the same df has
\* the same bounds of the grid, its trade_count is the number of
\* run_backtest's trades, its final_equity the last equity of run_backtest's
\* curve, its total_return the return of that equity on the capital, and its
\* max_drawdown the maximum drawdown calculate_metrics found.
C35_SameReplay ==
    (runner = "optimize_parameters" /\ previous.returned) =>
        \A n \in ComparedRows :
            /\ results[n].lower_price = previous.lower_price
            /\ results[n].upper_price = previous.upper_price
            /\ results[n].trade_count = Len(previous.trades)
            /\ results[n].trade_count = previous.metrics.trade_count
            /\ results[n].final_equity = Last(previous.equity_curve).equity
            /\ results[n].final_equity = previous.metrics.final_equity
            /\ results[n].total_return = previous.metrics.net_profit
            /\ results[n].max_drawdown = previous.metrics.max_drawdown

\* C35 witness: the sweep has returned with the row of the combination of
\* run_backtest, a combination other than the first and the last, and the
\* replay traded, ended with a position and had a drawdown
C35_Witness ==
    /\ runner = "optimize_parameters"
    /\ previous.returned
    /\ pc = "returned"
    /\ previous.test > 1
    /\ previous.test < total_tests
    /\ ComparedRows # {}
    /\ \A n \in ComparedRows :
          /\ results[n].trade_count >= 2
          /\ results[n].max_drawdown < 0
          /\ results[n].total_return # 0

----------------------------------------------------------------------------
(* MomentumBotSafe: the emergency stop                                      *)

\* a step of the bot in which a buy order is filled
BuyOrderPlaced ==
    /\ runner = "MomentumBotSafe.run"
    /\ Len(trades') = Len(trades) + 1
    /\ Last(trades').side = "buy"

\* C36 (the emergency stop is a latch): once emergency_stop is True no step
\* resets it and should_stop_trading stays True; the part of the loop body
\* that checks the stop-loss and the signals is only entered with
\* emergency_stop False, and a buy order is placed in that part only, so no
\* loop iteration that starts with emergency_stop True places a buy order.
C36_EmergencyStopLatch ==
    /\ []((runner = "MomentumBotSafe.run" /\ pc = "check_stop_loss") =>
             ~safety.emergency_stop)
    /\ [][/\ (runner = "MomentumBotSafe.run" /\ safety.emergency_stop) =>
                /\ safety'.emergency_stop
                /\ should_stop_trading(safety')
          /\ BuyOrderPlaced =>
                /\ pc = "check_stop_loss"
                /\ ~safety.emergency_stop]_vars

\* C36 witness: an iteration that started with the emergency stop set, while
\* the API errors are counted from 0 again and the bot holds the position it
\* bought, is at its daily loss check
C36_Witness ==
    /\ runner = "MomentumBotSafe.run"
    /\ pc = "check_daily_loss"
    /\ safety.emergency_stop
    /\ safety.api_error_count = 0
    /\ in_position
    /\ Len(trades) = 1

----------------------------------------------------------------------------
(* MomentumBotSafe: the count of API errors                                 *)

\* check_volatility raised the emergency stop in this step: the price moved
\* by volatility_stop_threshold over the full price_history
VolatilityStopStep ==
    /\ pc = "get_price_history"
    /\ Len(safety'.price_history) >= price_history_maxlen
    /\ moved_by(safety'.price_history[1], Last(safety'.price_history),
                volatility_stop_threshold)

\* C37 (API errors are counted in a row): api_error_count is the number of
\* API calls (fetch_ohlcv, fetch_balance, an order) that failed since the
\* last one that succeeded; the emergency stop is set whenever
\* api_error_threshold (3) calls have failed in a row, and a step sets it
\* with fewer failures in a row only through check_volatility.
C37_ConsecutiveApiErrors ==
    /\ [](runner = "MomentumBotSafe.run" =>
             /\ safety.api_error_count = safety.failures_in_a_row
             /\ safety.threshold_reached => safety.emergency_stop)
    /\ [][(/\ runner = "MomentumBotSafe.run"
           /\ ~safety.emergency_stop
           /\ safety'.emergency_stop
           /\ ~safety'.threshold_reached) => VolatilityStopStep]_vars

\* C37 witness: three calls have failed in a row before any price was
\* seen, the count is 3 and the emergency stop is set
C37_Witness ==
    /\ runner = "MomentumBotSafe.run"
    /\ safety.api_error_count = api_error_threshold
    /\ safety.threshold_reached
    /\ safety.emergency_stop
    /\ safety.price_history = <<>>

----------------------------------------------------------------------------
(* MomentumBotSafe: the daily loss limit and a failed balance fetch         *)

\* what the account is worth at current_price
RealTotalBalance == exchange.JPY + (exchange.BTC * bot.current_price)

\* what a step of the daily loss check may do to the halt and to the start
\* balance of the day: set the halt only on a fall of the account of more
\* than daily_loss_limit percent from the start balance, and take only the
\* worth of the account as start balance
HaltOnRealLossOnly ==
    /\ (~safety.daily_trading_stopped /\ safety'.daily_trading_stopped) =>
          /\ safety.daily_start_balance # None
          /\ (RealTotalBalance - safety.daily_start_balance) * 100
                < -(daily_loss_limit * safety.daily_start_balance)
    /\ safety'.daily_start_balance # safety.daily_start_balance =>
          safety'.daily_start_balance = RealTotalBalance

\* C38 (a failed balance fetch does not count as a loss), as claimed: the
\* daily-loss halt is set only when the real total balance has fallen by
\* more than daily_loss_limit from the start balance of the day, and a
\* balance of (0, 0) returned after a failed fetch neither sets the halt nor
\* becomes the start balance of the day.
C38_HaltOnlyOnRealLoss ==
    [][DailyLossStep => HaltOnRealLossOnly]_vars

\* the same for the steps whose balance fetch succeeded
C38_HaltOnlyOnRealLossWhenFetched ==
    [][(DailyLossStep /\ safety'.failures_in_a_row = 0) => HaltOnRealLossOnly]_vars

\* a step in which execute_buy or execute_sell of a live bot is called (the
\* call record is cleared at every sleep)
OrderCallStep == bot.called = "" /\ bot'.called # ""

\* C39: in MomentumBotSafe, MomentumBot and MomentumBotJPY in_position is
\* True exactly when entry_price is not None, in every reachable state; and
\* a call of execute_buy or execute_sell in which no order is filled (the
\* balance or minimum-size check fails, or the exchange call raises) returns
\* False and leaves in_position and entry_price as they were
C39_FailedOrderKeepsPosition ==
    /\ [](in_position <=> entry_price # None)
    /\ [][(OrderCallStep /\ trades' = trades)
             => (~bot'.returned /\ UNCHANGED <<in_position, entry_price>>)]_vars

\* MomentumBot.execute_sell returned False while the position bought before
\* is held: it is still held at its entry price
C39_Witness ==
    /\ strategy = "MomentumBot"
    /\ bot.called = "execute_sell"
    /\ ~bot.returned
    /\ Len(trades) = 1
    /\ in_position
    /\ entry_price = trades[1].price

=============================================================================
